---------------------------- MODULE Spec2Model ----------------------------
(***************************************************************************)
(* A model of the caddy-waf middleware: the per-request WAFState, the two  *)
(* operations on it that live in response.go (allowRequest, blockRequest), *)
(* the anomaly threshold set by Provision, the documented blocking         *)
(* priorities (doc.go), and the request pipeline (pre-rule checks, phases  *)
(* 1..4, rule evaluation) that drives them; the responseRecorder and the   *)
(* custom block responses; the rate limiter of one key; and the reloads of *)
(* the rules and blacklists (ReloadRules, ReloadConfig) against requests.  *)
(* Further specifications cover the RuleCache under concurrent Get and     *)
(* Set, the rule loader, loadIPBlacklist, the steps of Provision, the      *)
(* GeoIP handler with the country checks, the log channel with its         *)
(* consumer, the file watchers with Shutdown, the GeoIP readers closed by  *)
(* Shutdown, the calls on a responseRecorder, the rule-hit counts under    *)
(* concurrent matches, and two watcher goroutines reloading under m.mu.    *)
(*                                                                         *)
(* The request handler, the rule loader, the rate limiter, the GeoIP       *)
(* handler and the log worker are not among the source files at hand;      *)
(* their definitions below follow the written specification (sections      *)
(* 4.3 - 4.7, 4.9 - 4.11, 5 and 7) and the repository's tests, and say so. *)
(***************************************************************************)
EXTENDS Integers, Sequences, FiniteSets, TLC

(* ------------------------------ bounds -------------------------------- *)

\* Number of requests served one after the other in a behaviour.
MaxRequests == 2

\* Number of direct calls on one WAFState in the operation-level specification.
MaxOps == 4

\* Number of rule generations installed by reloads in the reload specification.
MaxReloads == 2

\* Last tick of the clock in the rate-limiter specification.
MaxTime == 6

\* Number of checks made on the key in the rate-limiter specification.
MaxChecks == 4

(* ---------------------------- constants ------------------------------- *)

StatusOK == 200
StatusForbidden == 403
StatusTooManyRequests == 429

\* Provision: the threshold used when the configured one is <= 0.
DefaultAnomalyThreshold == 20

\* The thresholds a configuration may carry before Provision normalises them.
ConfiguredThresholds == {0, 2}

\* "Global blocking priorities" as documented, highest first.
BlockingPriorities_swapped ==
    << "ip_blacklist", "dns_blacklist", "rate_limit",
       "country_blacklist", "country_whitelist" >>

BlockingPriorities ==
    << "ip_blacklist", "dns_blacklist", "rate_limit",
       "country_whitelist", "country_blacklist" >>

(* ------------------------- the request universe ----------------------- *)

IPs == {"10.0.0.1", "10.0.0.2"}
Countries == {"BR", "US"}
Patterns == {"foo", "bar"}
ResponsePatterns == {"leak"}

\* Reverse lookup of the client IP (a fixed oracle).
ReverseHost(ip) == IF ip = "10.0.0.1" THEN "bad.example" ELSE "ok.example"

\* A request: the client IP, the country the GeoIP oracle gives for it, the
\* patterns its extracted values contain, and whether it arrives after the
\* rate-limit window of its key's earlier requests has elapsed.
Requests ==
    [ip : IPs, country : Countries, tokens : SUBSET Patterns, elapsed : BOOLEAN]

NoRequest == [ip |-> "none", country |-> "none", tokens |-> {}, elapsed |-> FALSE]

(* ------------------------------- rules -------------------------------- *)

\* Lexicographic order of the rule IDs in use (Rule.ID is a string).
IdOrder == << "B1", "R1", "R2", "R3", "R4", "R5" >>

IdRank(id) == CHOOSE i \in 1..Len(IdOrder) : IdOrder[i] = id

\* The content of the rule file, in file order.
RuleFile ==
    << [ID |-> "R2", Phase |-> 1, Pattern |-> "foo", Score |-> 1, Action |-> "log",   Priority |-> 1],
       [ID |-> "R4", Phase |-> 3, Pattern |-> "leak", Score |-> 1, Action |-> "log",  Priority |-> 0],
       [ID |-> "R1", Phase |-> 1, Pattern |-> "foo", Score |-> 1, Action |-> "log",   Priority |-> 1],
       [ID |-> "B1", Phase |-> 2, Pattern |-> "bar", Score |-> 0, Action |-> "block", Priority |-> 5],
       [ID |-> "R5", Phase |-> 4, Pattern |-> "leak", Score |-> 1, Action |-> "log",  Priority |-> 0],
       [ID |-> "R3", Phase |-> 1, Pattern |-> "bar", Score |-> 1, Action |-> "log",   Priority |-> 0] >>

RuleIds == {RuleFile[i].ID : i \in 1..Len(RuleFile)}

Phases == 1..4

\* Rule order of a loaded RuleSet: priority ascending, ties by ID ascending.
RuleLess(a, b) ==
    \/ a.Priority < b.Priority
    \/ a.Priority = b.Priority /\ IdRank(a.ID) < IdRank(b.ID)

RECURSIVE InsertSorted(_, _)
InsertSorted(r, s) ==
    IF s = << >> THEN << r >>
    ELSE IF RuleLess(r, Head(s)) THEN << r >> \o s
    ELSE << Head(s) >> \o InsertSorted(r, Tail(s))

RECURSIVE SortRules(_)
SortRules(s) ==
    IF s = << >> THEN << >> ELSE InsertSorted(Head(s), SortRules(Tail(s)))

\* The variant of validRule that does not look at the score.
validRule_anyScore(r) ==
    /\ r.ID # ""
    /\ r.Phase \in Phases
    /\ r.Action \in {"log", "block", "challenge"}

\* A rule is kept by the loader when it satisfies the rule invariants.
validRule(r) ==
    /\ r.ID # ""
    /\ r.Phase \in Phases
    /\ r.Score >= 0
    /\ r.Action \in {"log", "block", "challenge"}

\* The variant of loadRules that keeps the rules of a phase in file order.
loadRules_fileOrder(file) ==
    [p \in Phases |->
        SelectSeq(file, LAMBDA r : validRule(r) /\ r.Phase = p)]

\* loadRules: the valid rules of the file, bucketed by phase, each bucket
\* sorted by (priority, id).
loadRules(file) ==
    [p \in Phases |->
        SortRules(SelectSeq(file, LAMBDA r : validRule(r) /\ r.Phase = p))]

(* ------------------------------- state -------------------------------- *)

VARIABLES
    \* configuration of the Middleware, fixed once provisioned
    AnomalyThreshold,   \* effective threshold (after Provision)
    ipBlacklist,        \* set of blacklisted client IPs
    dnsBlacklist,       \* set of blacklisted host names
    CountryWhitelist,   \* [Enabled, CountryList]
    CountryBlacklist,   \* [Enabled, CountryList]
    RateLimit,          \* RateLimit.Requests; 0 = no rate limiter
    Rules,              \* phase -> sequence of rules
    \* process-wide counters
    ruleHits,           \* rule id -> hit count
    rateCount,          \* client IP -> requests counted in the live window
    blockedRequests,
    allowedRequests,
    counters,           \* totalRequests and the rate limiter's metrics
    \* the request in flight
    pc,                 \* position of ServeHTTP
    req,                \* the request
    state,              \* its WAFState
    phase,              \* phase being evaluated (0 before phase 1)
    chk,                \* index into BlockingPriorities of the next check
    idx,                \* index of the next rule of the phase
    whitelisted,        \* the country whitelist check let the request pass
    resp,               \* what has been written to the response
    respTokens,         \* patterns contained in the downstream response
    \* history of the request in flight, for stating the properties
    matched,            \* matched_rules: [id, phase, score, priority, action]
    evaluated,          \* the pre-rule checks evaluated, in order
    entered,            \* the pipeline stages entered, in order
    start,              \* ruleHits, rateCount and counters when it arrived
    served,             \* number of requests started so far
    ops,                \* number of direct calls made (operation-level spec)
    \* the rate limiter, one RateKey (rate-limiter specification)
    rlCfg,              \* [requests, window, ringSize]
    now,                \* the clock, in ticks
    ring,               \* slot -> [start, count]: the key's RateCounter
    rlStats,            \* [requests, blocked]: the rate limiter's metrics
    rlLog,              \* the checks made so far: [t, allow]
    \* configuration of the block response
    CustomResponses,    \* [isNil, entries]: status code -> CustomBlockResponse
    \* reloads (reload specification)
    files,              \* [rules, ip, dns]: the content of the watched files
    reload,             \* the reload in progress, holding m.mu
    rq,                 \* the request in flight and what its lookups saw
    gens,               \* the RuleSets installed so far, oldest first
    \* the rule cache (cache specification)
    ruleCache,          \* [rules, readers, writer]: the map and its RWMutex
    calls,              \* goroutine -> the Get or Set call it is in
    sets,               \* the Set calls that have taken effect, in order
    \* the rule loader (loader specification)
    loader,             \* the load in progress: position, input, rules kept
    \* the IP blacklist file (blacklist-file specification)
    ipLoad,             \* loadIPBlacklist: position, the map, the warnings
    \* Provision (provisioning specification)
    provision,          \* position of Provision, what it found and created
    \* the GeoIP handler (GeoIP specification)
    geo,                \* [geoIP, fallback, last]: handle, behaviour, last call
    \* the log channel and its consumer (log specification)
    logw,               \* [chan, dropped, lost, forwarded, pc, decision, response]
    \* the file watchers (watcher specification)
    watch,              \* [started, isShuttingDown, path, task, events, ...]
    \* a responseRecorder and its wrapped writer (recorder specification)
    recorder,           \* [body, statusCode, written, wrapped, calls]
    \* concurrent requests counting their rule hits (rule-hit specification)
    hitReqs,            \* [pc, id, old, matches, retries]: increments under way
    \* m.mu and the watcher goroutines that reload (mutex specification)
    mu                  \* [holder, pc, fn, wrote, inside, history, started]

cfgVars == << AnomalyThreshold, ipBlacklist, dnsBlacklist, CountryWhitelist,
              CountryBlacklist, RateLimit, Rules >>

rlVars == << rlCfg, now, ring, rlStats, rlLog >>

\* The variables the request pipeline does not touch.
reloadVars == << files, reload, rq, gens >>

cacheVars == << ruleCache, calls, sets >>

\* The variables of the components specified on their own.
loadVars == << loader >>

concVars == << recorder, hitReqs, mu >>

sysVars == << cacheVars, loadVars, ipLoad, provision, geo, logw, watch, concVars >>

otherVars == << CustomResponses, sysVars >>

auxVars == << rlVars, otherVars, reloadVars >>

pipeVars == << AnomalyThreshold, ipBlacklist, dnsBlacklist, CountryWhitelist,
               CountryBlacklist, RateLimit, Rules, ruleHits, rateCount,
               blockedRequests, allowedRequests, counters, pc, req, state,
               phase, chk, idx, whitelisted, resp, respTokens, matched,
               evaluated, entered, start, served, ops >>

vars == << AnomalyThreshold, ipBlacklist, dnsBlacklist, CountryWhitelist,
           CountryBlacklist, RateLimit, Rules, ruleHits, rateCount,
           blockedRequests, allowedRequests, counters, pc, req, state, phase,
           chk, idx, whitelisted, resp, respTokens, matched, evaluated,
           entered, start, served, ops, auxVars >>

\* WAFState as created for a request: every field at its zero value.
NewWAFState ==
    [TotalScore |-> 0, Blocked |-> FALSE, StatusCode |-> 0,
     ResponseWritten |-> FALSE]

\* What has gone to the wrapped writer at the first WriteHeader: the status
\* and the header fields as they were then.  Status 0: nothing sent yet.
NotSent == [status |-> 0, contentType |-> "", headers |-> {}]

\* A response nothing has been written to: the recorder's status code, the
\* header map (Content-Type apart from the other fields), the body chunks
\* written, and what has been sent.
EmptyResponse ==
    [status |-> 0, contentType |-> "", headers |-> {}, body |-> << >>,
     sent |-> NotSent]

\* CustomResponses as configured: nil, or an entry for 403 only.
NoCustomResponses == [isNil |-> TRUE, entries |-> << >>]

customResponse ==
    [isNil |-> FALSE,
     entries |-> (StatusForbidden :>
                    [StatusCode |-> StatusForbidden,
                     Headers |-> {<< "Retry-After", "60" >>},
                     Body |-> "Access Denied"])]

CustomResponseChoices == {NoCustomResponses, customResponse}

\* Provision: a configured threshold <= 0 is replaced by the default.
ProvisionThreshold(configured) ==
    IF configured <= 0 THEN DefaultAnomalyThreshold ELSE configured

WhitelistChoices ==
    { [Enabled |-> FALSE, CountryList |-> {"BR"}],
      [Enabled |-> TRUE,  CountryList |-> {}],
      [Enabled |-> TRUE,  CountryList |-> {"BR"}] }

BlacklistChoices ==
    { [Enabled |-> FALSE, CountryList |-> {"US", "BR"}],
      [Enabled |-> TRUE,  CountryList |-> {"US", "BR"}] }

(* ------------------- operations on a WAFState (response.go) ----------- *)

\* responseRecorder.WriteHeader: the recorder keeps the status code of the
\* last call and hands every call on to the wrapped writer, which sends the
\* status and the header fields at the first call and ignores later ones.
WriteHeader(r, statusCode) ==
    [r EXCEPT !.status = statusCode,
              !.sent = IF r.sent.status = 0
                         THEN [status |-> statusCode,
                               contentType |-> r.contentType,
                               headers |-> r.headers]
                         ELSE @]

\* writeCustomResponse(recorder, statusCode): an entry for the status code
\* gives its headers, its StatusCode and its body; without one nothing is
\* written.
writeCustomResponse(r, statusCode) ==
    IF statusCode \in DOMAIN CustomResponses.entries
      THEN LET e == CustomResponses.entries[statusCode]
               h == [r EXCEPT !.headers = @ \cup e.Headers]
           IN  [WriteHeader(h, e.StatusCode) EXCEPT
                   !.body = Append(@, << "custom", e.Body >>)]
      ELSE r

\* The writes of blockRequest: Content-Type, the status code, then the custom
\* response when CustomResponses is not nil, else the default text; the body
\* chunk << "blocked", reason >> stands for
\* "Request blocked by WAF. Reason: <reason>".
writeBlockResponse(r, statusCode, reason) ==
    LET h == WriteHeader([r EXCEPT !.contentType = "text/plain"], statusCode)
    IN  IF ~CustomResponses.isNil
          THEN writeCustomResponse(h, statusCode)
          ELSE [h EXCEPT !.body = Append(@, << "blocked", reason >>)]

\* allowRequest without the increment of the allowed-requests metric.
allowRequest_noMetric ==
    /\ state' = [state EXCEPT !.Blocked = FALSE, !.StatusCode = StatusOK,
                              !.ResponseWritten = FALSE]
    /\ allowedRequests' = allowedRequests

\* allowRequest(state)
allowRequest ==
    /\ state' = [state EXCEPT !.Blocked = FALSE, !.StatusCode = StatusOK,
                              !.ResponseWritten = FALSE]
    /\ allowedRequests' = allowedRequests + 1

\* blockRequest without the assignment state.Blocked = true.
blockRequest_noLatch(st, statusCode, reason) ==
    /\ state' = [st EXCEPT !.StatusCode = statusCode, !.ResponseWritten = TRUE]
    /\ blockedRequests' = blockedRequests + 1
    /\ resp' = writeBlockResponse(resp, statusCode, reason)

\* blockRequest that overwrites the whole struct (*state = WAFState{...}),
\* losing the fields it does not name.
blockRequest_overwrite(st, statusCode, reason) ==
    /\ state' = [NewWAFState EXCEPT !.Blocked = TRUE, !.StatusCode = statusCode,
                                    !.ResponseWritten = TRUE]
    /\ blockedRequests' = blockedRequests + 1
    /\ resp' = writeBlockResponse(resp, statusCode, reason)

\* blockRequest(recorder, r, state, statusCode, reason, ...): st is the
\* state as the caller has left it.
blockRequest(st, statusCode, reason) ==
    /\ state' = [st EXCEPT !.Blocked = TRUE, !.StatusCode = statusCode,
                           !.ResponseWritten = TRUE]
    /\ blockedRequests' = blockedRequests + 1
    /\ resp' = writeBlockResponse(resp, statusCode, reason)

(* ------------------------------ Init ---------------------------------- *)

\* A rate limiter that has seen no check yet.
EmptyBucket == [start |-> 0, count |-> 0]

RateLimiterIdle(cfg) ==
    /\ rlCfg = cfg
    /\ now = 0
    /\ ring = [i \in 0..(cfg.ringSize - 1) |-> EmptyBucket]
    /\ rlStats = [requests |-> 0, blocked |-> 0]
    /\ rlLog = << >>

\* The variables outside the request pipeline, at rest.
NoRateLimiter == [requests |-> 1, window |-> 1, ringSize |-> 1]

\* No reload in progress; newIP is the trie a reload is filling, todo the
\* entries of the file not yet inserted, before the references at its start.
NoReload ==
    [pc |-> "idle", kind |-> "none", newIP |-> {}, todo |-> {},
     before |-> << >>, result |-> "none"]

\* No request in flight.  seenIP is the IPSet its blacklist lookup saw (and
\* whether a reload had a trie half-built then), seen[p] the rule list its
\* lookup for phase p saw, seenGen[p] the number of the generation installed
\* at that lookup.
NoLookups ==
    [active |-> FALSE, phase |-> 0, startGen |-> 0,
     seenIP |-> {"none"}, ipLookupMidLoad |-> FALSE, seen |-> << >>,
     seenGen |-> << >>]

ReloadIdle(f) ==
    /\ files = f
    /\ reload = NoReload
    /\ rq = NoLookups
    /\ gens = << >>

\* A watched file: readable with some content, or not.
File(content) == [ok |-> TRUE, content |-> content]

\* An unreadable rule file, an unreadable blacklist file.
Unparsable == [ok |-> FALSE, content |-> << >>]

Unreadable == [ok |-> FALSE, content |-> {}]

NoFiles == [rules |-> Unparsable, ip |-> Unreadable, dns |-> Unreadable]

\* The rule cache as NewRuleCache makes it, and no call in progress.
NewRuleCache == [rules |-> << >>, readers |-> 0, writer |-> FALSE]

NoCall == [pc |-> "idle", op |-> "none", key |-> "none", regex |-> "nil",
           got |-> "nil", hit |-> FALSE, seen |-> 0]

CacheGoroutines == {"g1", "g2", "w"}

CacheIdle ==
    /\ ruleCache = NewRuleCache
    /\ calls = [g \in CacheGoroutines |-> NoCall]
    /\ sets = << >>

\* No load in progress.  files are the paths not yet read, todo the rule
\* objects of the current file not yet looked at, kept the rules accepted so
\* far, before the RuleSet at the start; loads and compiles count the calls
\* of loadRules and of regexp.Compile.
NoLoad ==
    [pc |-> "idle", paths |-> << >>, files |-> << >>, file |-> "",
     todo |-> << >>, kept |-> << >>, warnings |-> << >>, before |-> << >>,
     result |-> << "none", "" >>, loads |-> 0, compiles |-> 0]

\* loadIPBlacklist is not running; file is the content of the file it read,
\* blacklist the keys of its map not yet converted.
NoIPLoad == [pc |-> "idle", file |-> {}, blacklist |-> {}, warnings |-> {}]

\* No request has been looked at.
NoProbe ==
    [remoteAddr |-> "none", ip |-> "pass", dns |-> "pass",
     whitelist |-> "pass", blacklist |-> "pass"]

\* Provision has not run.  configured is the anomaly threshold before it,
\* fallback the configured geoIPLookupFallbackBehavior; the rest is what
\* Provision finds (the log file, the watched files, the GeoIP database)
\* and creates (the log worker, the watcher tasks, the rate limiter, the
\* GeoIP readers of the two country filters, the loaders and handlers).
\* No write event has reached a watcher goroutine.
NoWatcherReload ==
    [pc |-> "none", file |-> "none", fn |-> "none", began |-> "none",
     ended |-> "none", loaders |-> FALSE]

NotProvisioned ==
    [pc |-> "idle", result |-> "none", configured |-> 0,
     fallback |-> "default_allow", logFile |-> "none", logWorker |-> FALSE,
     watchers |-> {}, ruleFiles |-> "none", ipFile |-> "none",
     dnsFile |-> "none", rateLimiter |-> FALSE, geoIPPath |-> "none",
     blacklistGeoIP |-> "nil", whitelistGeoIP |-> "nil", loaders |-> FALSE,
     handlerFallback |-> "", probe |-> NoProbe,
     watcherReload |-> NoWatcherReload, shutdowns |-> 0, closed |-> 0]

\* No call of the GeoIP handler has been made.
NoGeoCall ==
    [fn |-> "none", remoteAddr |-> "none", path |-> "none", geoIP |-> "nil",
     err |-> FALSE, inList |-> FALSE, code |-> "", whitelist |-> "pass",
     blacklist |-> "pass"]

\* The GeoIP handler as NewGeoIPHandler makes it, and no database.
NoGeo == [geoIP |-> "nil", fallback |-> "default_allow", last |-> NoGeoCall]

\* StartLogWorker: an empty channel, nothing dropped, no request decided.
NoLog ==
    [chan |-> << >>, dropped |-> 0, lost |-> {}, forwarded |-> << >>,
     pc |-> [r \in {"a", "b", "c"} |-> "decide"],
     decision |-> [r \in {"a", "b", "c"} |-> "none"],
     response |-> [r \in {"a", "b", "c"} |-> "none"]]

\* No watcher task started, Shutdown not called.
NoWatch ==
    [started |-> FALSE, isShuttingDown |-> FALSE,
     path |-> [f \in {"RuleFiles", "IPBlacklistFile", "DNSBlacklistFile"} |-> << >>],
     task |-> [f \in {"RuleFiles", "IPBlacklistFile", "DNSBlacklistFile"} |-> "none"],
     events |-> [f \in {"RuleFiles", "IPBlacklistFile", "DNSBlacklistFile"} |-> 0],
     writes |-> 0, errors |-> 0, reloads |-> << >>]

\* NewResponseRecorder(w): an empty buffer, statusCode 0, written false;
\* nothing has reached the wrapped writer w; no call made yet.
NoRecorder ==
    [body |-> << >>, statusCode |-> 0, written |-> FALSE,
     wrapped |-> [headers |-> << >>, body |-> << >>], calls |-> << >>]

\* No request has a rule hit to count.
NoHits ==
    [pc |-> [g \in {"a", "b"} |-> "idle"],
     id |-> [g \in {"a", "b"} |-> "none"],
     old |-> [g \in {"a", "b"} |-> 0],
     matches |-> [id \in RuleIds |-> 0], retries |-> 0]

\* m.mu unlocked, both watcher goroutines outside their reloads.
NoMutex ==
    [holder |-> "none", pc |-> [g \in {"w1", "w2"} |-> "idle"],
     fn |-> [g \in {"w1", "w2"} |-> "none"],
     wrote |-> [g \in {"w1", "w2"} |-> [ip |-> << >>, dns |-> << >>, rules |-> << >>]],
     inside |-> {}, history |-> << >>, started |-> 0]

\* No call on a recorder, no concurrent requests, no reload by a watcher.
ConcIdle == recorder = NoRecorder /\ hitReqs = NoHits /\ mu = NoMutex

SystemIdle ==
    /\ CacheIdle
    /\ loader = NoLoad
    /\ ipLoad = NoIPLoad
    /\ provision = NotProvisioned
    /\ geo = NoGeo
    /\ logw = NoLog
    /\ watch = NoWatch
    /\ ConcIdle

AuxIdle ==
    /\ RateLimiterIdle(NoRateLimiter)
    /\ CustomResponses = NoCustomResponses
    /\ ReloadIdle(NoFiles)
    /\ SystemIdle

RequestIdle ==
    /\ pc = "idle"
    /\ req = NoRequest
    /\ state = NewWAFState
    /\ phase = 0
    /\ chk = 1
    /\ idx = 1
    /\ whitelisted = FALSE
    /\ resp = EmptyResponse
    /\ respTokens = {}
    /\ matched = << >>
    /\ evaluated = << >>
    /\ entered = << >>
    /\ served = 0
    /\ ops = 0

CountersZero ==
    /\ ruleHits = [id \in RuleIds |-> 0]
    /\ rateCount = [ip \in IPs |-> 0]
    /\ start = [hits |-> [id \in RuleIds |-> 0], rate |-> [ip \in IPs |-> 0],
                rlRequests |-> 0, rlBlocked |-> 0]
    /\ blockedRequests = 0
    /\ allowedRequests = 0
    /\ counters = [totalRequests |-> 0, rateLimiterRequests |-> 0,
                   rateLimiterBlocked |-> 0]

\* A provisioned Middleware with nothing configured and no request served:
\* the state of the pipeline in the specifications of single components.
ConfigIdle(rules) ==
    /\ AnomalyThreshold = ProvisionThreshold(0)
    /\ ipBlacklist = {}
    /\ dnsBlacklist = {}
    /\ CountryWhitelist = [Enabled |-> FALSE, CountryList |-> {}]
    /\ CountryBlacklist = [Enabled |-> FALSE, CountryList |-> {}]
    /\ RateLimit = 0
    /\ Rules = rules

ServingIdle ==
    /\ CountersZero
    /\ RequestIdle
    /\ RateLimiterIdle(NoRateLimiter)
    /\ CustomResponses = NoCustomResponses
    /\ ReloadIdle(NoFiles)

CoreIdle == ConfigIdle(loadRules(RuleFile)) /\ ServingIdle

\* The Middleware after Provision, for every configuration of the bounded sets.
Init ==
    /\ AnomalyThreshold \in {ProvisionThreshold(c) : c \in ConfiguredThresholds}
    /\ ipBlacklist \in {{}, {"10.0.0.1"}}
    /\ dnsBlacklist \in {{}, {"bad.example"}}
    /\ CountryWhitelist \in WhitelistChoices
    /\ CountryBlacklist \in BlacklistChoices
    /\ RateLimit \in {0, 1}
    /\ Rules = loadRules(RuleFile)
    /\ CountersZero
    /\ RequestIdle
    /\ AuxIdle

(* ----------------------- the request pipeline ------------------------- *)

\* ServeHTTP is entered for a request: a fresh WAFState, phase 1 begins with
\* the pre-rule checks.
NewRequest(r) ==
    /\ pc \in {"idle", "done", "blocked"}
    /\ served < MaxRequests
    /\ r.elapsed => (RateLimit > 0 /\ rateCount[r.ip] > 0)
    /\ served' = served + 1
    /\ req' = r
    /\ state' = NewWAFState
    /\ counters' = [counters EXCEPT !.totalRequests = @ + 1]
    /\ pc' = "checks"
    /\ phase' = 1
    /\ chk' = 1
    /\ idx' = 1
    /\ whitelisted' = FALSE
    /\ resp' = EmptyResponse
    /\ respTokens' = {}
    /\ matched' = << >>
    /\ evaluated' = << >>
    /\ entered' = << "phase1" >>
    /\ start' = [hits |-> ruleHits, rate |-> rateCount,
                 rlRequests |-> counters.rateLimiterRequests,
                 rlBlocked |-> counters.rateLimiterBlocked]
    /\ UNCHANGED << cfgVars, ruleHits, rateCount, blockedRequests,
                    allowedRequests, ops, auxVars >>

\* A check that does not block hands over to the next check, the last one
\* to the rules of phase 1.
CheckPasses ==
    /\ IF chk = Len(BlockingPriorities)
         THEN pc' = "rules" /\ chk' = chk
         ELSE pc' = "checks" /\ chk' = chk + 1
    /\ UNCHANGED << state, blockedRequests, resp >>

\* A check that blocks ends the phase at once.
CheckBlocks(statusCode, reason) ==
    /\ blockRequest(state, statusCode, reason)
    /\ pc' = "phase_end"
    /\ chk' = chk

CheckFrame ==
    UNCHANGED << cfgVars, ruleHits, allowedRequests, req, phase, idx,
                 respTokens, matched, entered, start, served, ops, auxVars >>

CheckIPBlacklist ==
    /\ pc = "checks"
    /\ BlockingPriorities[chk] = "ip_blacklist"
    /\ evaluated' = Append(evaluated, "ip_blacklist")
    /\ IF req.ip \in ipBlacklist
         THEN CheckBlocks(StatusForbidden, "ip_blacklist")
         ELSE CheckPasses
    /\ UNCHANGED << counters, rateCount, whitelisted >>
    /\ CheckFrame

CheckDNSBlacklist ==
    /\ pc = "checks"
    /\ BlockingPriorities[chk] = "dns_blacklist"
    /\ evaluated' = Append(evaluated, "dns_blacklist")
    /\ IF ReverseHost(req.ip) \in dnsBlacklist
         THEN CheckBlocks(StatusForbidden, "dns_blacklist")
         ELSE CheckPasses
    /\ UNCHANGED << counters, rateCount, whitelisted >>
    /\ CheckFrame

\* The requests of the key counted in the window that is live at the check.
LiveCount == IF req.elapsed THEN 0 ELSE rateCount[req.ip]

\* The rate limiter exists only when RateLimit.Requests > 0.  A check first
\* drops the expired counts of its key; if the key has used up its requests
\* it is denied, else it is counted.
CheckRateLimit ==
    /\ pc = "checks"
    /\ BlockingPriorities[chk] = "rate_limit"
    /\ evaluated' = Append(evaluated, "rate_limit")
    /\ IF RateLimit > 0
         THEN IF LiveCount >= RateLimit
                THEN /\ counters' = [counters EXCEPT
                                        !.rateLimiterRequests = @ + 1,
                                        !.rateLimiterBlocked = @ + 1]
                     /\ CheckBlocks(StatusTooManyRequests, "rate_limit")
                     /\ UNCHANGED rateCount
                ELSE /\ counters' = [counters EXCEPT !.rateLimiterRequests = @ + 1]
                     /\ rateCount' = [rateCount EXCEPT ![req.ip] = LiveCount + 1]
                     /\ CheckPasses
         ELSE /\ CheckPasses
              /\ UNCHANGED << counters, rateCount >>
    /\ UNCHANGED whitelisted
    /\ CheckFrame

\* The whitelist is consulted when enabled and non-empty; a country on it is
\* let through the geographic checks.
CheckCountryWhitelist ==
    /\ pc = "checks"
    /\ BlockingPriorities[chk] = "country_whitelist"
    /\ evaluated' = Append(evaluated, "country_whitelist")
    /\ IF CountryWhitelist.Enabled /\ CountryWhitelist.CountryList # {}
         THEN IF req.country \in CountryWhitelist.CountryList
                THEN /\ whitelisted' = TRUE
                     /\ CheckPasses
                ELSE /\ CheckBlocks(StatusForbidden, "country_not_whitelisted")
                     /\ UNCHANGED whitelisted
         ELSE /\ CheckPasses
              /\ UNCHANGED whitelisted
    /\ UNCHANGED << counters, rateCount >>
    /\ CheckFrame

CheckCountryBlacklist ==
    /\ pc = "checks"
    /\ BlockingPriorities[chk] = "country_blacklist"
    /\ evaluated' = Append(evaluated, "country_blacklist")
    /\ IF /\ CountryBlacklist.Enabled
          /\ ~whitelisted
          /\ req.country \in CountryBlacklist.CountryList
         THEN CheckBlocks(StatusForbidden, "country_blacklisted")
         ELSE CheckPasses
    /\ UNCHANGED << counters, rateCount, whitelisted >>
    /\ CheckFrame

(* --------------------------- rule evaluation -------------------------- *)

\* The values a phase's targets yield: request values in phases 1 and 2,
\* response values in phases 3 and 4.
PhaseValues == IF phase <= 2 THEN req.tokens ELSE respTokens

\* A rule has matched: count the hit, add the score, record the match, then
\* block on a block rule, else block when the total has reached the threshold.
processRuleMatch(r) ==
    LET st == [state EXCEPT !.TotalScore = @ + r.Score] IN
    /\ ruleHits' = [ruleHits EXCEPT ![r.ID] = @ + 1]
    /\ matched' = Append(matched, [id |-> r.ID, phase |-> phase,
                                   score |-> r.Score, priority |-> r.Priority,
                                   action |-> r.Action])
    /\ IF r.Action = "block"
         THEN blockRequest(st, StatusForbidden, "rule_block")
              /\ pc' = "phase_end" /\ idx' = idx
         ELSE IF st.TotalScore >= AnomalyThreshold
           THEN blockRequest(st, StatusForbidden, "anomaly_threshold")
                /\ pc' = "phase_end" /\ idx' = idx
           ELSE /\ state' = st
                /\ pc' = "rules" /\ idx' = idx + 1
                /\ UNCHANGED << blockedRequests, resp >>

\* handlePhase evaluates the next rule of the phase.
EvalRule ==
    /\ pc = "rules"
    /\ idx <= Len(Rules[phase])
    /\ LET r == Rules[phase][idx] IN
         IF r.Pattern \in PhaseValues
           THEN processRuleMatch(r)
           ELSE /\ idx' = idx + 1
                /\ UNCHANGED << ruleHits, matched, state, blockedRequests,
                                resp, pc >>
    /\ UNCHANGED << cfgVars, rateCount, allowedRequests, counters, req, phase,
                    chk, whitelisted, respTokens, evaluated, entered,
                    start, served, ops, auxVars >>

\* handlePhase has returned: a block has halted the phase, or every rule of
\* it has been gone through.
PhaseOver == pc = "phase_end" \/ (pc = "rules" /\ idx > Len(Rules[phase]))

(* ------------------------ ServeHTTP between phases -------------------- *)

PipelineFrame ==
    UNCHANGED << cfgVars, ruleHits, rateCount, blockedRequests, counters, req,
                 chk, whitelisted, matched, evaluated, start,
                 served, ops, auxVars >>

\* A block latched in phases 1..3 ends the request: no later phase, no handler.
BlockedAfterPhase ==
    /\ PhaseOver
    /\ phase <= 3
    /\ state.Blocked
    /\ pc' = "blocked"
    /\ UNCHANGED << state, allowedRequests, phase, idx, resp, respTokens, entered >>
    /\ PipelineFrame

\* The variant of NextPhase that does not look at state.Blocked.
NextPhase_ignoresBlock ==
    /\ PhaseOver
    /\ phase \in {1, 3}
    /\ phase' = phase + 1
    /\ idx' = 1
    /\ pc' = "rules"
    /\ entered' = Append(entered, IF phase = 1 THEN "phase2" ELSE "phase4")
    /\ UNCHANGED << state, allowedRequests, resp, respTokens >>
    /\ PipelineFrame

\* PHASE1 -> PHASE2 and PHASE3 -> PHASE4, taken while not blocked.
NextPhase ==
    /\ PhaseOver
    /\ phase \in {1, 3}
    /\ ~state.Blocked
    /\ phase' = phase + 1
    /\ idx' = 1
    /\ pc' = "rules"
    /\ entered' = Append(entered, IF phase = 1 THEN "phase2" ELSE "phase4")
    /\ UNCHANGED << state, allowedRequests, resp, respTokens >>
    /\ PipelineFrame

\* PHASE2 -> HANDLER, taken while not blocked: the downstream handler writes
\* its response into the recorder, and phase 3 begins.
CallHandler(t) ==
    /\ PhaseOver
    /\ phase = 2
    /\ ~state.Blocked
    /\ respTokens' = t
    /\ resp' = [WriteHeader(resp, StatusOK) EXCEPT
                    !.body = Append(@, << "downstream", "" >>)]
    /\ entered' = entered \o << "handler", "phase3" >>
    /\ phase' = 3
    /\ idx' = 1
    /\ pc' = "rules"
    /\ UNCHANGED << state, allowedRequests >>
    /\ PipelineFrame

\* PHASE4 -> DONE: a request that was never blocked is allowed; a block
\* latched in phase 4 comes after the response and is only logged.
Finish ==
    /\ PhaseOver
    /\ phase = 4
    /\ IF state.Blocked
         THEN UNCHANGED << state, allowedRequests >>
         ELSE allowRequest
    /\ pc' = "done"
    /\ UNCHANGED << phase, idx, resp, respTokens, entered >>
    /\ PipelineFrame

Next ==
    \/ \E r \in Requests : NewRequest(r)
    \/ CheckIPBlacklist
    \/ CheckDNSBlacklist
    \/ CheckRateLimit
    \/ CheckCountryWhitelist
    \/ CheckCountryBlacklist
    \/ EvalRule
    \/ BlockedAfterPhase
    \/ NextPhase
    \/ \E t \in SUBSET ResponsePatterns : CallHandler(t)
    \/ Finish

Spec == Init /\ [][Next]_vars

(* -------------- direct calls on one WAFState (operation level) -------- *)

\* One provisioned Middleware and one fresh WAFState; the operations of
\* response.go and a rule match are then applied to it in any order.
InitOps ==
    /\ AnomalyThreshold = ProvisionThreshold(2)
    /\ ipBlacklist = {}
    /\ dnsBlacklist = {}
    /\ CountryWhitelist = [Enabled |-> FALSE, CountryList |-> {}]
    /\ CountryBlacklist = [Enabled |-> FALSE, CountryList |-> {}]
    /\ RateLimit = 0
    /\ Rules = loadRules(RuleFile)
    /\ CountersZero
    /\ RequestIdle
    /\ RateLimiterIdle(NoRateLimiter)
    /\ CustomResponses \in CustomResponseChoices
    /\ ReloadIdle(NoFiles)
    /\ SystemIdle

OpsFrame ==
    UNCHANGED << cfgVars, rateCount, counters, req, phase, chk, whitelisted,
                 respTokens, evaluated, entered, start, served, auxVars >>

OpBlockRequest(statusCode, reason) ==
    /\ ops < MaxOps
    /\ ops' = ops + 1
    /\ blockRequest(state, statusCode, reason)
    /\ UNCHANGED << ruleHits, allowedRequests, pc, idx, matched >>
    /\ OpsFrame

OpAllowRequest ==
    /\ ops < MaxOps
    /\ ops' = ops + 1
    /\ allowRequest
    /\ UNCHANGED << ruleHits, blockedRequests, pc, idx, resp, matched >>
    /\ OpsFrame

OpRuleMatch(r) ==
    /\ ops < MaxOps
    /\ ops' = ops + 1
    /\ processRuleMatch(r)
    /\ UNCHANGED allowedRequests
    /\ OpsFrame

NextOps ==
    \/ \E c \in {StatusForbidden, StatusTooManyRequests} :
          \E why \in {"ip_blacklist", "rate_limit"} : OpBlockRequest(c, why)
    \/ OpAllowRequest
    \/ \E i \in 1..Len(RuleFile) : OpRuleMatch(RuleFile[i])

SpecOps == InitOps /\ [][NextOps]_vars

(* ------------------- the rate limiter, one RateKey -------------------- *)

\* The rate_limit configurations explored: requests per window, the window
\* in ticks, and the number of buckets in the ring.
RateLimitConfigs ==
    { [requests |-> n, window |-> wk[1], ringSize |-> wk[2]] :
        n \in {1, 2}, wk \in { << 2, 1 >>, << 4, 2 >> } }

BucketWidth(cfg) == cfg.window \div cfg.ringSize

\* Start of the bucket a time falls in, and the ring slot that holds it.
BucketStart(cfg, t) == (t \div BucketWidth(cfg)) * BucketWidth(cfg)

Slot(cfg, t) == (t \div BucketWidth(cfg)) % cfg.ringSize

\* A bucket is expired once its start is a window or more in the past.
Expired(cfg, bucket, t) == bucket.start + cfg.window <= t

\* Advance the ring: expired buckets are zeroed.
advance(cfg, r, t) ==
    [i \in DOMAIN r |-> IF Expired(cfg, r[i], t) THEN EmptyBucket ELSE r[i]]

RECURSIVE SumCounts(_, _)
SumCounts(r, i) == IF i < 0 THEN 0 ELSE r[i].count + SumCounts(r, i - 1)

\* check(key) at time t: advance the ring, sum the live buckets, deny when
\* the sum has reached requests, else increment the current bucket.
rlCheck(cfg, r, t) ==
    LET live == advance(cfg, r, t)
        sum == SumCounts(live, cfg.ringSize - 1)
    IN  IF sum >= cfg.requests
          THEN [allow |-> FALSE, ring |-> live]
          ELSE [allow |-> TRUE,
                ring |-> [live EXCEPT ![Slot(cfg, t)] =
                            [start |-> BucketStart(cfg, t),
                             count |-> (IF @.start = BucketStart(cfg, t)
                                          THEN @.count ELSE 0) + 1]]]

InitRL ==
    /\ AnomalyThreshold = ProvisionThreshold(0)
    /\ ipBlacklist = {}
    /\ dnsBlacklist = {}
    /\ CountryWhitelist = [Enabled |-> FALSE, CountryList |-> {}]
    /\ CountryBlacklist = [Enabled |-> FALSE, CountryList |-> {}]
    /\ RateLimit = 1
    /\ Rules = loadRules(RuleFile)
    /\ CountersZero
    /\ RequestIdle
    /\ \E cfg \in RateLimitConfigs : RateLimiterIdle(cfg)
    /\ CustomResponses = NoCustomResponses
    /\ ReloadIdle(NoFiles)
    /\ SystemIdle

\* Time passes.
Tick ==
    /\ now < MaxTime
    /\ now' = now + 1
    /\ UNCHANGED << rlCfg, ring, rlStats, rlLog, otherVars, reloadVars, pipeVars >>

\* A request on the key reaches the rate limiter.
Check ==
    /\ Len(rlLog) < MaxChecks
    /\ LET res == rlCheck(rlCfg, ring, now) IN
         /\ ring' = res.ring
         /\ rlLog' = Append(rlLog, [t |-> now, allow |-> res.allow])
         /\ rlStats' = [requests |-> rlStats.requests + 1,
                        blocked |-> rlStats.blocked + (IF res.allow THEN 0 ELSE 1)]
    /\ UNCHANGED << rlCfg, now, otherVars, reloadVars, pipeVars >>

\* cleanup() that drops the key's RateCounter whatever its age.
Cleanup_anyAge ==
    /\ \E i \in DOMAIN ring : ring[i].count > 0
    /\ ring' = [i \in DOMAIN ring |-> EmptyBucket]
    /\ UNCHANGED << rlCfg, now, rlStats, rlLog, otherVars, reloadVars, pipeVars >>

\* cleanup(): a RateCounter whose newest bucket is older than 2 x window is
\* dropped; the key's next check finds a fresh counter.
Cleanup ==
    /\ \E i \in DOMAIN ring : ring[i].count > 0
    /\ \A i \in DOMAIN ring : ring[i].start + 2 * rlCfg.window < now
    /\ ring' = [i \in DOMAIN ring |-> EmptyBucket]
    /\ UNCHANGED << rlCfg, now, rlStats, rlLog, otherVars, reloadVars, pipeVars >>

NextRL == Tick \/ Check \/ Cleanup

SpecRL == InitRL /\ [][NextRL]_vars

(* ------------------------------ reloads ------------------------------- *)

\* The contents the watched files take.
RuleFileR1 ==
    << [ID |-> "R1", Phase |-> 1, Pattern |-> "foo", Score |-> 1, Action |-> "log", Priority |-> 1] >>

RuleFileR2 ==
    << [ID |-> "R2", Phase |-> 2, Pattern |-> "bar", Score |-> 1, Action |-> "log", Priority |-> 1] >>

RuleFileVersions == {RuleFileR1, RuleFileR2}

IPFileVersions == {{"10.0.0.1"}, {"10.0.0.1", "10.0.0.2"}}

DNSFileVersions == {{"bad.example"}}

FileChoices ==
    [rules : {File(v) : v \in RuleFileVersions} \cup {Unparsable},
     ip : {File(v) : v \in IPFileVersions} \cup {Unreadable},
     dns : {File(v) : v \in DNSFileVersions} \cup {Unreadable}]

\* The variables of the request pipeline other than the three references
\* a reload swaps.
servingVars ==
    << AnomalyThreshold, CountryWhitelist, CountryBlacklist, RateLimit,
       ruleHits, rateCount, blockedRequests, allowedRequests, counters, pc,
       req, state, phase, chk, idx, whitelisted, resp, respTokens, matched,
       evaluated, entered, start, served, ops >>

ReloadFrame == UNCHANGED << servingVars, rlVars, otherVars >>

\* The Middleware after Provision has loaded the first content of each file.
InitReload ==
    /\ AnomalyThreshold = ProvisionThreshold(0)
    /\ ipBlacklist = {"10.0.0.1"}
    /\ dnsBlacklist = {"bad.example"}
    /\ CountryWhitelist = [Enabled |-> FALSE, CountryList |-> {}]
    /\ CountryBlacklist = [Enabled |-> FALSE, CountryList |-> {}]
    /\ RateLimit = 0
    /\ Rules = loadRules(RuleFileR1)
    /\ CountersZero
    /\ RequestIdle
    /\ RateLimiterIdle(NoRateLimiter)
    /\ CustomResponses = NoCustomResponses
    /\ files = [rules |-> File(RuleFileR1), ip |-> File({"10.0.0.1"}),
                dns |-> File({"bad.example"})]
    /\ reload = NoReload
    /\ rq = NoLookups
    /\ gens = << loadRules(RuleFileR1) >>
    /\ SystemIdle

\* One of the watched files is rewritten.  A reload reads each file once, so
\* a write that falls inside a reload acts as one before it or after it.
WriteFile(f) ==
    /\ reload.pc = "idle"
    /\ f # files
    /\ \E k \in {"rules", "ip", "dns"} : f = [files EXCEPT ![k] = f[k]]
    /\ files' = f
    /\ UNCHANGED << ipBlacklist, dnsBlacklist, Rules, reload, rq, gens >>
    /\ ReloadFrame

\* The references as a reload finds them.
References == << ipBlacklist, dnsBlacklist, Rules >>

\* return with an error / return nil (the deferred Unlock follows).
Returned(result) == [reload EXCEPT !.pc = "returned", !.result = result]

\* ReloadRules: m.mu.Lock(), then loadRules.
ReloadRulesBegin ==
    /\ reload.pc = "idle"
    /\ Len(gens) <= MaxReloads
    /\ reload' = [NoReload EXCEPT !.pc = "rules", !.kind = "ReloadRules",
                                  !.before = References]
    /\ UNCHANGED << ipBlacklist, dnsBlacklist, Rules, files, rq, gens >>
    /\ ReloadFrame

\* ReloadConfig: m.mu.Lock(), a new trie, and loadIPBlacklist reads the file;
\* a read error is returned at once.
ReloadConfigBegin ==
    /\ reload.pc = "idle"
    /\ Len(gens) <= MaxReloads
    /\ LET r == [NoReload EXCEPT !.kind = "ReloadConfig", !.before = References] IN
         reload' = IF files.ip.ok
                     THEN [r EXCEPT !.pc = "ip_load", !.todo = files.ip.content]
                     ELSE [r EXCEPT !.pc = "returned", !.result = "error"]
    /\ UNCHANGED << ipBlacklist, dnsBlacklist, Rules, files, rq, gens >>
    /\ ReloadFrame

\* loadIPBlacklist with the shared trie as its target.
InsertIP_inPlace(ip) ==
    /\ reload.pc = "ip_load"
    /\ ip \in reload.todo
    /\ reload' = [reload EXCEPT !.newIP = @ \cup {ip}, !.todo = @ \ {ip}]
    /\ ipBlacklist' = reload.newIP \cup {ip}
    /\ UNCHANGED << dnsBlacklist, Rules, files, rq, gens >>
    /\ ReloadFrame

\* loadIPBlacklist inserts one entry of the file into the new trie.
InsertIP(ip) ==
    /\ reload.pc = "ip_load"
    /\ ip \in reload.todo
    /\ reload' = [reload EXCEPT !.newIP = @ \cup {ip}, !.todo = @ \ {ip}]
    /\ UNCHANGED << ipBlacklist, dnsBlacklist, Rules, files, rq, gens >>
    /\ ReloadFrame

\* m.ipBlacklist = newIPBlacklist, once every entry is in.
SwapIPBlacklist ==
    /\ reload.pc = "ip_load"
    /\ reload.todo = {}
    /\ ipBlacklist' = reload.newIP
    /\ reload' = [reload EXCEPT !.pc = "dns"]
    /\ UNCHANGED << dnsBlacklist, Rules, files, rq, gens >>
    /\ ReloadFrame

\* loadDNSBlacklist into a new map; on error return, else
\* m.dnsBlacklist = newDNSBlacklist.
ReloadDNSBlacklist ==
    /\ reload.pc = "dns"
    /\ IF files.dns.ok
         THEN /\ dnsBlacklist' = files.dns.content
              /\ reload' = [reload EXCEPT !.pc = "rules"]
         ELSE /\ reload' = Returned("error")
              /\ UNCHANGED dnsBlacklist
    /\ UNCHANGED << ipBlacklist, Rules, files, rq, gens >>
    /\ ReloadFrame

\* The new RuleSet replaces only the list of phase 1.
InstallRules_mixed(new) ==
    /\ Rules' = [Rules EXCEPT ![1] = new[1]]
    /\ gens' = Append(gens, new)

\* The new RuleSet replaces the current one in one assignment.
InstallRules(new) ==
    /\ Rules' = new
    /\ gens' = Append(gens, new)

\* m.loadRules(m.RuleFiles): a file that does not parse fails the load and
\* leaves the current RuleSet; else the new RuleSet is built and swapped in.
ReloadLoadRules ==
    /\ reload.pc = "rules"
    /\ IF files.rules.ok
         THEN /\ InstallRules(loadRules(files.rules.content))
              /\ reload' = Returned("nil")
         ELSE /\ reload' = Returned("error")
              /\ UNCHANGED << Rules, gens >>
    /\ UNCHANGED << ipBlacklist, dnsBlacklist, files, rq >>
    /\ ReloadFrame

\* The reload has returned: m.mu is unlocked.
ReloadReturn ==
    /\ reload.pc = "returned"
    /\ reload' = NoReload
    /\ UNCHANGED << ipBlacklist, dnsBlacklist, Rules, files, rq, gens >>
    /\ ReloadFrame

\* A reload has put some of the file's entries into its new trie, not all.
HalfBuilt ==
    reload.pc = "ip_load" /\ reload.newIP # {} /\ reload.todo # {}

\* A request arrives; its decision stack looks the client IP up.
RqStart ==
    /\ ~rq.active
    /\ rq' = [active |-> TRUE, phase |-> 0,
              startGen |-> Len(gens), seenIP |-> ipBlacklist,
              ipLookupMidLoad |-> HalfBuilt, seen |-> << >>,
              seenGen |-> << >>]
    /\ UNCHANGED << ipBlacklist, dnsBlacklist, Rules, files, reload, gens >>
    /\ ReloadFrame

\* The request enters its next phase and looks the phase's rule list up.
RqPhase ==
    /\ rq.active
    /\ rq.phase < 4
    /\ rq' = [rq EXCEPT !.phase = @ + 1,
                        !.seen = Append(@, Rules[rq.phase + 1]),
                        !.seenGen = Append(@, Len(gens))]
    /\ UNCHANGED << ipBlacklist, dnsBlacklist, Rules, files, reload, gens >>
    /\ ReloadFrame

\* The request has been through its phases; its state is discarded.
RqDone ==
    /\ rq.active
    /\ rq.phase = 4
    /\ rq' = NoLookups
    /\ UNCHANGED << ipBlacklist, dnsBlacklist, Rules, files, reload, gens >>
    /\ ReloadFrame

NextReload ==
    \/ \E f \in FileChoices : WriteFile(f)
    \/ ReloadRulesBegin
    \/ ReloadConfigBegin
    \/ \E ip \in IPs : InsertIP(ip)
    \/ SwapIPBlacklist
    \/ ReloadDNSBlacklist
    \/ ReloadLoadRules
    \/ ReloadReturn
    \/ RqStart
    \/ RqPhase
    \/ RqDone

SpecReload == InitReload /\ [][NextReload]_vars

(* --------------------------- the rule cache --------------------------- *)

\* Number of Set calls in a behaviour of the cache specification.
MaxSets == 3

CacheKeys == {"rule1", "rule2"}

\* The compiled regexes handed to Set (pointers, compared by identity).
CacheRegexes == {"re1", "re2"}

CacheReaders == {"g1", "g2"}

\* regex, exists := rc.rules[ruleID]: a key that is absent reads as nil, false.
Lookup(rules, ruleID) ==
    IF ruleID \in DOMAIN rules
      THEN [regex |-> rules[ruleID], exists |-> TRUE]
      ELSE [regex |-> "nil", exists |-> FALSE]

\* The assignment replaces the map by one that holds the new entry only.
Store_replaceMap(rules, ruleID, regex) ==
    [k \in {ruleID} |-> regex]

\* rc.rules[ruleID] = regex
Store(rules, ruleID, regex) ==
    [k \in DOMAIN rules \cup {ruleID} |->
        IF k = ruleID THEN regex ELSE rules[k]]

CacheFrame ==
    UNCHANGED << pipeVars, rlVars, CustomResponses, reloadVars, loadVars,
                 ipLoad, provision, geo, logw, watch,
                 concVars >>

Idle(g) == calls[g].pc \in {"idle", "returned"}

\* Get: rc.mu.RLock() waits while a writer holds the lock.
GetRLock(g, ruleID) ==
    /\ Idle(g)
    /\ ~ruleCache.writer
    /\ ruleCache' = [ruleCache EXCEPT !.readers = @ + 1]
    /\ calls' = [calls EXCEPT ![g] = [NoCall EXCEPT !.pc = "rlocked",
                                                    !.op = "Get",
                                                    !.key = ruleID]]
    /\ UNCHANGED sets
    /\ CacheFrame

\* Get: the map is read under the read lock.
GetRead(g) ==
    /\ calls[g].pc = "rlocked"
    /\ LET res == Lookup(ruleCache.rules, calls[g].key) IN
         calls' = [calls EXCEPT ![g].pc = "read", ![g].got = res.regex,
                                ![g].hit = res.exists, ![g].seen = Len(sets)]
    /\ UNCHANGED << ruleCache, sets >>
    /\ CacheFrame

\* Get: return regex, exists; the deferred RUnlock runs.
GetReturn(g) ==
    /\ calls[g].pc = "read"
    /\ ruleCache' = [ruleCache EXCEPT !.readers = @ - 1]
    /\ calls' = [calls EXCEPT ![g].pc = "returned"]
    /\ UNCHANGED sets
    /\ CacheFrame

\* Set: rc.mu.Lock() waits for the readers and the writer to leave.
SetLock(g, ruleID, regex) ==
    /\ Idle(g)
    /\ Len(sets) < MaxSets
    /\ ~ruleCache.writer
    /\ ruleCache.readers = 0
    /\ ruleCache' = [ruleCache EXCEPT !.writer = TRUE]
    /\ calls' = [calls EXCEPT ![g] = [NoCall EXCEPT !.pc = "locked",
                                                    !.op = "Set",
                                                    !.key = ruleID,
                                                    !.regex = regex]]
    /\ UNCHANGED sets
    /\ CacheFrame

\* Set: the entry is stored under the write lock.
SetStore(g) ==
    /\ calls[g].pc = "locked"
    /\ ruleCache' = [ruleCache EXCEPT
                        !.rules = Store(@, calls[g].key, calls[g].regex)]
    /\ sets' = Append(sets, << calls[g].key, calls[g].regex >>)
    /\ calls' = [calls EXCEPT ![g].pc = "stored"]
    /\ CacheFrame

\* Set: the deferred Unlock runs.
SetReturn(g) ==
    /\ calls[g].pc = "stored"
    /\ ruleCache' = [ruleCache EXCEPT !.writer = FALSE]
    /\ calls' = [calls EXCEPT ![g].pc = "returned"]
    /\ UNCHANGED sets
    /\ CacheFrame

InitCache == CoreIdle /\ SystemIdle

NextCache ==
    \/ \E g \in CacheReaders : \E k \in CacheKeys : GetRLock(g, k)
    \/ \E g \in CacheReaders : GetRead(g)
    \/ \E g \in CacheReaders : GetReturn(g)
    \/ \E k \in CacheKeys : \E r \in CacheRegexes : SetLock("w", k, r)
    \/ SetStore("w")
    \/ SetReturn("w")

SpecCache == InitCache /\ [][NextCache]_vars

(* --------------------------- the rule loader -------------------------- *)

\* Rule objects per rule file and loads per behaviour (loader specification).
MaxRulesPerFile == 2

MaxLoads == 2

\* The rule objects a file may hold: two sound rules with the same pattern,
\* and one object for each way of violating the rule invariants.
RuleObjects ==
    { [ID |-> "R1", Phase |-> 1, Pattern |-> "foo", Score |-> 1, Action |-> "log",   Priority |-> 1],
      [ID |-> "R2", Phase |-> 2, Pattern |-> "foo", Score |-> 1, Action |-> "block", Priority |-> 0],
      [ID |-> "",   Phase |-> 1, Pattern |-> "foo", Score |-> 1, Action |-> "log",   Priority |-> 1],
      [ID |-> "R1", Phase |-> 1, Pattern |-> "bar", Score |-> 2, Action |-> "log",   Priority |-> 0],
      [ID |-> "R3", Phase |-> 5, Pattern |-> "foo", Score |-> 1, Action |-> "log",   Priority |-> 1],
      [ID |-> "R3", Phase |-> 1, Pattern |-> "foo", Score |-> 0 - 1, Action |-> "log", Priority |-> 1],
      [ID |-> "R3", Phase |-> 1, Pattern |-> "(",   Score |-> 1, Action |-> "log",   Priority |-> 1],
      [ID |-> "R3", Phase |-> 1, Pattern |-> "foo", Score |-> 1, Action |-> "drop",  Priority |-> 1] }

RECURSIVE SeqsUpTo(_, _)
SeqsUpTo(S, n) ==
    IF n = 0 THEN {<< >>}
    ELSE LET shorter == SeqsUpTo(S, n - 1) IN
           shorter \cup {Append(s, x) : s \in shorter, x \in S}

\* A rule file: its path, whether it parses, and the rule objects in it.
RuleFileA ==
    {[name |-> "rules_a.json", ok |-> TRUE, content |-> c] :
        c \in SeqsUpTo(RuleObjects, MaxRulesPerFile)}
      \cup {[name |-> "rules_a.json", ok |-> FALSE, content |-> << >>]}

RuleFileB ==
    { [name |-> "rules_b.json", ok |-> TRUE,
       content |-> << [ID |-> "R2", Phase |-> 2, Pattern |-> "foo", Score |-> 1,
                       Action |-> "block", Priority |-> 0] >>],
      [name |-> "rules_b.json", ok |-> FALSE, content |-> << >>] }

\* m.RuleFiles: one file, or two.
RuleFilesChoices ==
    {<< a >> : a \in RuleFileA} \cup {<< a, b >> : a \in RuleFileA, b \in RuleFileB}

\* m.RuleFiles at a reload: the one rule file, rewritten with fewer rule
\* objects than a file may hold.
RuleFilesRewritten ==
    {paths \in RuleFilesChoices :
        Len(paths) = 1 /\ Len(paths[1].content) < MaxRulesPerFile}

\* regexp.Compile: the pattern "(" does not compile.
Compiles(pattern) == pattern # "("

\* A compiled regex: a new object at every compile.
Compiled(pattern, n) == [pattern |-> pattern, obj |-> n]

LoadFrame ==
    UNCHANGED << AnomalyThreshold, ipBlacklist, dnsBlacklist, CountryWhitelist,
                 CountryBlacklist, RateLimit, ruleHits, rateCount,
                 blockedRequests, allowedRequests, counters, pc, req, state,
                 phase, chk, idx, whitelisted, resp, respTokens, matched,
                 evaluated, entered, start, served, ops, rlVars,
                 CustomResponses, reloadVars, calls, sets, ipLoad,
                 provision, geo, logw, watch, concVars >>

\* loadRules(paths) is called: at Provision, and at every reload.
LoadBegin(paths) ==
    /\ loader.pc = "idle"
    /\ loader.loads < MaxLoads
    /\ loader.loads > 0 => paths \in RuleFilesRewritten
    /\ loader' = [NoLoad EXCEPT !.pc = "file", !.paths = paths,
                                !.files = paths, !.before = Rules,
                                !.loads = loader.loads + 1,
                                !.compiles = loader.compiles]
    /\ UNCHANGED << Rules, ruleCache >>
    /\ LoadFrame

\* The next file is parsed as a sequence of rule objects; a file that does
\* not parse fails the load with a reason naming the file.
LoadParse ==
    /\ loader.pc = "file"
    /\ IF loader.files = << >>
         THEN loader' = [loader EXCEPT !.pc = "install"]
         ELSE LET f == Head(loader.files) IN
                IF f.ok
                  THEN loader' = [loader EXCEPT !.pc = "rule",
                                                !.file = f.name,
                                                !.todo = f.content,
                                                !.files = Tail(@)]
                  ELSE loader' = [loader EXCEPT !.pc = "returned",
                                                !.result = << "error", f.name >>]
    /\ UNCHANGED << Rules, ruleCache >>
    /\ LoadFrame

\* The rule is skipped with a warning.
Skip(r) ==
    [loader EXCEPT !.todo = Tail(@),
                   !.warnings = Append(@, << loader.file, r >>)]

\* The Rule with its regex field set.
WithRegex(r, regex) ==
    [ID |-> r.ID, Phase |-> r.Phase, Pattern |-> r.Pattern, Score |-> r.Score,
     Action |-> r.Action, Priority |-> r.Priority, regex |-> regex]

\* The rule is kept with its compiled regex.
Keep(r, regex) ==
    [loader EXCEPT !.todo = Tail(@),
                   !.kept = Append(@, WithRegex(r, regex))]

\* The next rule object of the file: validated against the rule invariants,
\* its pattern compiled via the rule cache (Get under the rule's ID, Set on a
\* miss); a rule that fails either is skipped with a warning.
LoadRule ==
    /\ loader.pc = "rule"
    /\ IF loader.todo = << >>
         THEN /\ loader' = [loader EXCEPT !.pc = "file"]
              /\ UNCHANGED ruleCache
         ELSE LET r == Head(loader.todo)
                  cached == Lookup(ruleCache.rules, r.ID)
                  regex == Compiled(r.Pattern, loader.compiles + 1)
              IN  IF \/ ~validRule(r)
                     \/ \E i \in 1..Len(loader.kept) : loader.kept[i].ID = r.ID
                    THEN /\ loader' = Skip(r)
                         /\ UNCHANGED ruleCache
                    ELSE IF cached.exists
                      THEN /\ loader' = Keep(r, cached.regex)
                           /\ UNCHANGED ruleCache
                      ELSE IF Compiles(r.Pattern)
                        THEN /\ loader' = [Keep(r, regex) EXCEPT !.compiles = @ + 1]
                             /\ ruleCache' = [ruleCache EXCEPT
                                                !.rules = Store(@, r.ID, regex)]
                        ELSE /\ loader' = Skip(r)
                             /\ UNCHANGED ruleCache
    /\ UNCHANGED Rules
    /\ LoadFrame

\* Every file is read: the rules kept are sorted by (priority, id), bucketed
\* by phase, and the new RuleSet replaces the current one.
LoadInstall ==
    /\ loader.pc = "install"
    /\ Rules' = [p \in Phases |->
                   SortRules(SelectSeq(loader.kept, LAMBDA r : r.Phase = p))]
    /\ loader' = [loader EXCEPT !.pc = "returned", !.result = << "nil", "" >>]
    /\ UNCHANGED ruleCache
    /\ LoadFrame

\* loadRules has returned.
LoadReturn ==
    /\ loader.pc = "returned"
    /\ loader' = [NoLoad EXCEPT !.loads = loader.loads,
                                !.compiles = loader.compiles]
    /\ UNCHANGED << Rules, ruleCache >>
    /\ LoadFrame

\* Provision has made the rule cache and the empty rule map.
InitLoad ==
    /\ ConfigIdle([p \in Phases |-> << >>])
    /\ ServingIdle
    /\ SystemIdle

NextLoad ==
    \/ \E paths \in RuleFilesChoices : LoadBegin(paths)
    \/ LoadParse
    \/ LoadRule
    \/ LoadInstall
    \/ LoadReturn

SpecLoad == InitLoad /\ [][NextLoad]_vars

(* ------------------------- the IP blacklist file ---------------------- *)

\* Entries per IP blacklist file (blacklist-file specification).
MaxEntries == 3

\* Parsed addresses: the family and the groups of the address (octets of an
\* IPv4 address, 16-bit groups of an IPv6 address).
Addr4(a, b, c, d) == [v6 |-> FALSE, groups |-> << a, b, c, d >>]

Addr6(a, b, c, d, e, f, g, h) ==
    [v6 |-> TRUE, groups |-> << a, b, c, d, e, f, g, h >>]

\* The address texts in use and what they parse to; any other text is not
\* an address.
AddrTexts ==
    [t \in {"10.0.0.1", "10.0.0.0", "10.9.9.9", "192.168.1.1",
            "2001:db8::1", "2001:db8::2", "2001:db9::1"} |->
       CASE t = "10.0.0.1"    -> Addr4(10, 0, 0, 1)
         [] t = "10.0.0.0"    -> Addr4(10, 0, 0, 0)
         [] t = "10.9.9.9"    -> Addr4(10, 9, 9, 9)
         [] t = "192.168.1.1" -> Addr4(192, 168, 1, 1)
         [] t = "2001:db8::1" -> Addr6(8193, 3512, 0, 0, 0, 0, 0, 1)
         [] t = "2001:db8::2" -> Addr6(8193, 3512, 0, 0, 0, 0, 0, 2)
         [] t = "2001:db9::1" -> Addr6(8193, 3513, 0, 0, 0, 0, 0, 1)]

\* A text is kept as its host part followed by the parts joined to it with
\* "/": << "10.0.0.0", "8" >> is the text 10.0.0.0/8.

\* strings.Count(ip, ":") for the texts in use.
CountColons(text) ==
    IF text[1] \in DOMAIN AddrTexts /\ AddrTexts[text[1]].v6 THEN 3 ELSE 0

\* appendCIDR: "/32" for a text with fewer than two colons, else "/64".
appendCIDR(ip) ==
    IF CountColons(ip) < 2 THEN Append(ip, "32") ELSE Append(ip, "64")

\* The prefix lengths that occur, as numbers.
Bits == [b \in {"8", "16", "32", "64"} |->
           CASE b = "8" -> 8 [] b = "16" -> 16 [] b = "32" -> 32 [] b = "64" -> 64]

GroupBits(addr) == IF addr.v6 THEN 16 ELSE 8

\* netip.Prefix.Masked: the groups past the prefix length are zero.
Masked(addr, bits) ==
    [addr EXCEPT !.groups =
        [i \in DOMAIN addr.groups |->
            IF i * GroupBits(addr) <= bits THEN addr.groups[i] ELSE 0]]

\* netip.ParsePrefix: the text is split at its last "/"; what is before must
\* be an address, what is after a length that fits the family.
ParsePrefix(s) ==
    IF /\ Len(s) = 2
       /\ s[1] \in DOMAIN AddrTexts
       /\ s[2] \in DOMAIN Bits
       /\ Bits[s[2]] <= Len(AddrTexts[s[1]].groups) * GroupBits(AddrTexts[s[1]])
      THEN [err |-> FALSE, addr |-> AddrTexts[s[1]], bits |-> Bits[s[2]]]
      ELSE [err |-> TRUE, addr |-> Addr4(0, 0, 0, 0), bits |-> 0]

\* An address lies in a prefix of the trie.
Covers(prefix, addr) ==
    /\ prefix.addr.v6 = addr.v6
    /\ Masked(addr, prefix.bits) = prefix.addr

TrieContains(trie, addr) == \E prefix \in trie : Covers(prefix, addr)

\* The entries an IP blacklist file may hold: bare addresses of both
\* families, explicit prefixes of both families, and a line that is neither.
FileEntries ==
    { << "10.0.0.1" >>, << "2001:db8::1" >>, << "10.0.0.0", "8" >>,
      << "2001:db8::1", "32" >>, << "not-an-ip" >> }

IPFiles == {f \in SUBSET FileEntries : Cardinality(f) <= MaxEntries}

IPListFrame ==
    UNCHANGED << AnomalyThreshold, dnsBlacklist, CountryWhitelist,
                 CountryBlacklist, RateLimit, Rules, ruleHits, rateCount,
                 blockedRequests, allowedRequests, counters, pc, req, state,
                 phase, chk, idx, whitelisted, resp, respTokens, matched,
                 evaluated, entered, start, served, ops, rlVars,
                 CustomResponses, reloadVars, cacheVars, loadVars,
                 provision, geo, logw, watch, concVars >>

\* m.ipBlacklist = iptrie.NewTrie(); loadIPBlacklist(path, *m.ipBlacklist):
\* the file exists, and LoadIPBlacklistFromFile puts its entries into the
\* map blacklist.
LoadIPBlacklistBegin(f) ==
    /\ ipLoad.pc \in {"idle", "returned"}
    /\ ipLoad' = [NoIPLoad EXCEPT !.pc = "convert", !.file = f, !.blacklist = f]
    /\ ipBlacklist' = {}
    /\ IPListFrame

\* for ip := range blacklist: one key of the map, in any order, goes
\* through appendCIDR and netip.ParsePrefix; a text that does not parse is
\* skipped with a warning, the others are inserted into the trie.
LoadIPBlacklistEntry(ip) ==
    /\ ipLoad.pc = "convert"
    /\ ip \in ipLoad.blacklist
    /\ LET prefix == ParsePrefix(appendCIDR(ip)) IN
         IF prefix.err
           THEN /\ ipLoad' = [ipLoad EXCEPT !.blacklist = @ \ {ip},
                                            !.warnings = @ \cup {ip}]
                /\ UNCHANGED ipBlacklist
           ELSE /\ ipLoad' = [ipLoad EXCEPT !.blacklist = @ \ {ip}]
                /\ ipBlacklist' = ipBlacklist \cup
                      {[addr |-> Masked(prefix.addr, prefix.bits),
                        bits |-> prefix.bits]}
    /\ IPListFrame

\* return nil
LoadIPBlacklistReturn ==
    /\ ipLoad.pc = "convert"
    /\ ipLoad.blacklist = {}
    /\ ipLoad' = [ipLoad EXCEPT !.pc = "returned"]
    /\ UNCHANGED ipBlacklist
    /\ IPListFrame

InitIPList == CoreIdle /\ SystemIdle

NextIPList ==
    \/ \E f \in IPFiles : LoadIPBlacklistBegin(f)
    \/ \E ip \in FileEntries : LoadIPBlacklistEntry(ip)
    \/ LoadIPBlacklistReturn

SpecIPList == InitIPList /\ [][NextIPList]_vars

(* ------------------------------ Provision ----------------------------- *)

\* anomaly_threshold as configured: negative, zero or absent (JSON), and the
\* 5 that parseCaddyfile starts from.
ThresholdInputs == {0 - 1, 0, 5}

FallbackBehaviors == {"default_allow", "default_deny"}

\* The GeoIP oracle: the country of an address.
GeoCountry == [ip \in IPs |-> IF ip = "10.0.0.1" THEN "US" ELSE "BR"]

\* The remote addresses of the requests looked at: the IPs, and a text that
\* is no IP.
RemoteAddrs == IPs \cup {"invalid-ip"}

\* A GeoIP database handle: nil, an open reader, or an open reader whose
\* Lookup fails.
GeoIPHandles == {"nil", "reader", "failing"}

\* The variant in which a nil database handle is no match and no error.
IsCountryInList_nilIsNoMatch(remoteAddr, countryList, geoIP) ==
    IF geoIP = "nil"
      THEN [inList |-> FALSE, err |-> FALSE]
      ELSE IF remoteAddr \notin IPs \/ geoIP = "failing"
        THEN [inList |-> FALSE, err |-> TRUE]
        ELSE [inList |-> GeoCountry[remoteAddr] \in countryList, err |-> FALSE]

\* IsCountryInList: an error when the database handle is nil, when the
\* remote address is not an IP, and when the lookup fails; else whether the
\* country of the address is in the list.
IsCountryInList(remoteAddr, countryList, geoIP) ==
    IF geoIP = "nil" \/ remoteAddr \notin IPs \/ geoIP = "failing"
      THEN [inList |-> FALSE, err |-> TRUE]
      ELSE [inList |-> GeoCountry[remoteAddr] \in countryList, err |-> FALSE]

\* GetCountryCode: N/A without a database or without a valid IP.
GetCountryCode(remoteAddr, geoIP) ==
    IF geoIP = "nil" \/ remoteAddr \notin IPs \/ geoIP = "failing"
      THEN "N/A"
      ELSE GeoCountry[remoteAddr]

\* LoadGeoIPDatabase: an error for an empty path and for a path that does
\* not exist, else the reader.
LoadGeoIPDatabase(path) ==
    IF path \in {"", "missing"}
      THEN [reader |-> "nil", err |-> TRUE]
      ELSE [reader |-> "reader", err |-> FALSE]

\* What geo_ip_lookup_fallback_behavior makes of a failed lookup.
Fallback(behavior) == IF behavior = "default_allow" THEN "pass" ELSE "block"

\* The variant in which a failed lookup blocks the request.
CountryWhitelistCheck_errorBlocks(filter, geoIP, behavior, remoteAddr) ==
    IF filter.Enabled /\ filter.CountryList # {}
      THEN LET res == IsCountryInList(remoteAddr, filter.CountryList, geoIP) IN
             IF res.err THEN "block"
             ELSE IF res.inList THEN "pass" ELSE "block"
      ELSE "pass"

\* Check 4 of the decision stack: with the whitelist enabled and non-empty,
\* a country outside it is blocked; a failed lookup is decided by the
\* fallback behaviour.
CountryWhitelistCheck(filter, geoIP, behavior, remoteAddr) ==
    IF filter.Enabled /\ filter.CountryList # {}
      THEN LET res == IsCountryInList(remoteAddr, filter.CountryList, geoIP) IN
             IF res.err THEN Fallback(behavior)
             ELSE IF res.inList THEN "pass" ELSE "block"
      ELSE "pass"

\* Check 5: with the blacklist enabled, a country on it is blocked; a failed
\* lookup is decided by the fallback behaviour.
CountryBlacklistCheck(filter, geoIP, behavior, remoteAddr) ==
    IF filter.Enabled
      THEN LET res == IsCountryInList(remoteAddr, filter.CountryList, geoIP) IN
             IF res.err THEN Fallback(behavior)
             ELSE IF res.inList THEN "block" ELSE "pass"
      ELSE "pass"

ProvisionFrame ==
    UNCHANGED << ruleHits, rateCount, blockedRequests, allowedRequests,
                 counters, pc, req, state, phase, chk, idx, whitelisted, resp,
                 respTokens, matched, evaluated, entered, start, served, ops,
                 rlVars, CustomResponses, reloadVars, cacheVars, loadVars,
                 ipLoad, geo, logw, watch,
                 concVars >>

\* The fields of the Middleware that Provision may assign.
provisionedVars ==
    << AnomalyThreshold, ipBlacklist, dnsBlacklist, CountryWhitelist,
       CountryBlacklist, RateLimit, Rules >>

\* return nil / return an error (result is then its text).
ProvisionReturns(result) ==
    [provision EXCEPT !.pc = "returned", !.result = result]

\* Provision opens the log file; when that fails it logs a warning, keeps
\* the console logger, and returns nil.
OpenLogFile ==
    /\ provision.pc = "start"
    /\ \E opens \in BOOLEAN :
          provision' = IF opens
                         THEN [provision EXCEPT !.pc = "threshold",
                                                !.logFile = "open"]
                         ELSE [ProvisionReturns("nil") EXCEPT !.logFile = "failed"]
    /\ UNCHANGED provisionedVars
    /\ ProvisionFrame

\* if m.AnomalyThreshold <= 0 { m.AnomalyThreshold = 20 }
SetAnomalyThreshold ==
    /\ provision.pc = "threshold"
    /\ AnomalyThreshold' = ProvisionThreshold(AnomalyThreshold)
    /\ provision' = [provision EXCEPT !.pc = "logworker"]
    /\ UNCHANGED << ipBlacklist, dnsBlacklist, CountryWhitelist,
                    CountryBlacklist, RateLimit, Rules >>
    /\ ProvisionFrame

\* m.StartLogWorker()
StartLogWorker ==
    /\ provision.pc = "logworker"
    /\ provision' = [provision EXCEPT !.pc = "tor", !.logWorker = TRUE]
    /\ UNCHANGED provisionedVars
    /\ ProvisionFrame

\* m.Tor.Provision(ctx): its error is returned.
ProvisionTor ==
    /\ provision.pc = "tor"
    /\ \E ok \in BOOLEAN :
          provision' = IF ok THEN [provision EXCEPT !.pc = "watchers"]
                             ELSE ProvisionReturns("tor")
    /\ UNCHANGED provisionedVars
    /\ ProvisionFrame

\* The state of a configured file: no path configured, a path that does not
\* exist, a file that reads well, a file that exists and cannot be read.
FileStates == {"none", "missing", "ok", "unreadable"}

\* startFileWatcher for the rule files and for the two blacklist files: a
\* path that does not exist is skipped, every other path gets its task.
StartFileWatchers ==
    /\ provision.pc = "watchers"
    /\ \E rules \in {"none", "ok", "unreadable"} :
       \E ip \in FileStates :
       \E dns \in {"none", "missing", "ok"} :
          provision' =
            [provision EXCEPT
               !.pc = "ratelimit",
               !.ruleFiles = rules, !.ipFile = ip, !.dnsFile = dns,
               !.watchers = {f \in {"rules", "ip", "dns"} :
                               (CASE f = "rules" -> rules
                                  [] f = "ip" -> ip
                                  [] f = "dns" -> dns) \in {"ok", "unreadable"}}]
    /\ UNCHANGED provisionedVars
    /\ ProvisionFrame

\* With RateLimit.Requests > 0 the window and the cleanup interval must be
\* positive, else Provision returns an error; the rate limiter is created
\* and its cleanup started.
ConfigureRateLimit ==
    /\ provision.pc = "ratelimit"
    /\ IF RateLimit > 0
         THEN \E valid \in BOOLEAN :
                 provision' = IF valid
                                THEN [provision EXCEPT !.pc = "geoip",
                                                       !.rateLimiter = TRUE]
                                ELSE ProvisionReturns("invalid rate limit configuration")
         ELSE provision' = [provision EXCEPT !.pc = "geoip"]
    /\ UNCHANGED provisionedVars
    /\ ProvisionFrame

\* With a country filter enabled: a database path that does not exist is
\* warned about ("Country blacklisting/whitelisting will be disabled"), a
\* database that does not open is logged as an error, and only an opened
\* reader is stored, in the filters that are enabled.
ConfigureGeoIP ==
    /\ provision.pc = "geoip"
    /\ IF CountryBlacklist.Enabled \/ CountryWhitelist.Enabled
         THEN \E path \in {"missing", "corrupt", "ok"} :
                 provision' =
                   [provision EXCEPT
                      !.pc = "loaders",
                      !.geoIPPath = path,
                      !.blacklistGeoIP =
                          IF path = "ok" /\ CountryBlacklist.Enabled
                            THEN "reader" ELSE "nil",
                      !.whitelistGeoIP =
                          IF path = "ok" /\ CountryWhitelist.Enabled
                            THEN "reader" ELSE "nil"]
         ELSE provision' = [provision EXCEPT !.pc = "loaders"]
    /\ UNCHANGED provisionedVars
    /\ ProvisionFrame

\* The config loader, the blacklist loader, the GeoIP handler and the request
\* value extractor are created, and the handler is given the fallback
\* behaviour.
CreateLoaders ==
    /\ provision.pc = "loaders"
    /\ provision' = [provision EXCEPT !.pc = "ip", !.loaders = TRUE,
                                      !.handlerFallback = provision.fallback]
    /\ UNCHANGED provisionedVars
    /\ ProvisionFrame

\* if m.IPBlacklistFile != "": a new trie and loadIPBlacklist, which returns
\* nil for a file that does not exist and an error for one it cannot read.
ProvisionIPBlacklist ==
    /\ provision.pc = "ip"
    /\ CASE provision.ipFile = "ok" ->
              /\ ipBlacklist' = {"10.0.0.1"}
              /\ provision' = [provision EXCEPT !.pc = "dns"]
         [] provision.ipFile = "unreadable" ->
              /\ ipBlacklist' = {}
              /\ provision' = ProvisionReturns("failed to load IP blacklist")
         [] OTHER ->
              /\ ipBlacklist' = {}
              /\ provision' = [provision EXCEPT !.pc = "dns"]
    /\ UNCHANGED << AnomalyThreshold, dnsBlacklist, CountryWhitelist,
                    CountryBlacklist, RateLimit, Rules >>
    /\ ProvisionFrame

\* if m.DNSBlacklistFile != "": a new map and loadDNSBlacklist.
ProvisionDNSBlacklist ==
    /\ provision.pc = "dns"
    /\ dnsBlacklist' = IF provision.dnsFile = "ok" THEN {"bad.example"} ELSE {}
    /\ provision' = [provision EXCEPT !.pc = "rules"]
    /\ UNCHANGED << AnomalyThreshold, ipBlacklist, CountryWhitelist,
                    CountryBlacklist, RateLimit, Rules >>
    /\ ProvisionFrame

\* With rule files configured loadRules is called and its error returned;
\* without, a warning.  Then return nil.
ProvisionRules ==
    /\ provision.pc = "rules"
    /\ CASE provision.ruleFiles = "ok" ->
              /\ Rules' = loadRules(RuleFileR1)
              /\ provision' = ProvisionReturns("nil")
         [] provision.ruleFiles = "unreadable" ->
              /\ UNCHANGED Rules
              /\ provision' = ProvisionReturns("failed to load rules")
         [] OTHER ->
              /\ UNCHANGED Rules
              /\ provision' = ProvisionReturns("nil")
    /\ UNCHANGED << AnomalyThreshold, ipBlacklist, dnsBlacklist,
                    CountryWhitelist, CountryBlacklist, RateLimit >>
    /\ ProvisionFrame

\* A request reaches the provisioned Middleware: the verdicts of its IP,
\* DNS and country checks.
ProbeChecks(remoteAddr) ==
    /\ provision.pc = "returned"
    /\ provision.result = "nil"
    /\ provision' =
         [provision EXCEPT
            !.probe =
              [remoteAddr |-> remoteAddr,
               ip |-> IF remoteAddr \in ipBlacklist THEN "block" ELSE "pass",
               dns |-> IF remoteAddr \in IPs /\ ReverseHost(remoteAddr) \in dnsBlacklist
                         THEN "block" ELSE "pass",
               whitelist |-> CountryWhitelistCheck(CountryWhitelist,
                                provision.whitelistGeoIP,
                                provision.handlerFallback, remoteAddr),
               blacklist |-> CountryBlacklistCheck(CountryBlacklist,
                                provision.blacklistGeoIP,
                                provision.handlerFallback, remoteAddr)]]
    /\ UNCHANGED provisionedVars
    /\ ProvisionFrame

\* A watched file is written while its watcher goroutine runs: one Write
\* event for the behaviour.
WatchedFileWritten(f) ==
    /\ f \in provision.watchers
    /\ provision.watcherReload.pc = "none"
    /\ provision' = [provision EXCEPT !.watcherReload.pc = "event",
                                      !.watcherReload.file = f]
    /\ UNCHANGED provisionedVars
    /\ ProvisionFrame

\* The watcher goroutine takes the event and enters ReloadRules (path with
\* "rule") or ReloadConfig: m.mu.Lock().  Provision holds no lock.
WatcherReloadLock ==
    /\ provision.watcherReload.pc = "event"
    /\ provision' =
         [provision EXCEPT
            !.watcherReload.pc = "running",
            !.watcherReload.fn = IF provision.watcherReload.file = "rules"
                                   THEN "ReloadRules" ELSE "ReloadConfig",
            !.watcherReload.began = provision.pc,
            !.watcherReload.loaders = provision.loaders]
    /\ UNCHANGED provisionedVars
    /\ ProvisionFrame

\* The reload's loads and assignments, up to its return (m.mu.Unlock()):
\* ReloadConfig replaces the blacklists that are configured and returns at
\* the first load that fails; both functions end with loadRules.
WatcherReloadUnlock ==
    /\ provision.watcherReload.pc = "running"
    /\ provision' = [provision EXCEPT !.watcherReload.pc = "done",
                                      !.watcherReload.ended = provision.pc]
    /\ LET config == provision.watcherReload.fn = "ReloadConfig"
           ipFails == config /\ provision.ipFile = "unreadable"
       IN  /\ ipBlacklist' = IF config /\ provision.ipFile \in {"ok", "missing"}
                               THEN (IF provision.ipFile = "ok"
                                       THEN {"10.0.0.1"} ELSE {})
                               ELSE ipBlacklist
           /\ dnsBlacklist' = IF config /\ ~ipFails
                                    /\ provision.dnsFile \in {"ok", "missing"}
                                THEN (IF provision.dnsFile = "ok"
                                        THEN {"bad.example"} ELSE {})
                                ELSE dnsBlacklist
           /\ Rules' = IF ~ipFails /\ provision.ruleFiles = "ok"
                         THEN loadRules(RuleFileR1) ELSE Rules
    /\ UNCHANGED << AnomalyThreshold, CountryWhitelist, CountryBlacklist,
                    RateLimit >>
    /\ ProvisionFrame

\* Calls of Shutdown on one Middleware.
MaxShutdowns == 2

\* Shutdown, its GeoIP part: each filter's handle that is not nil is closed
\* and set to nil, the blacklist's first; closed counts the Close calls on
\* the reader that Provision opened.
ShutdownCloseGeoIP ==
    /\ provision.pc = "returned"
    /\ provision.shutdowns < MaxShutdowns
    /\ provision' =
         [provision EXCEPT
            !.shutdowns = @ + 1,
            !.closed = @ + (IF provision.blacklistGeoIP # "nil" THEN 1 ELSE 0)
                         + (IF provision.whitelistGeoIP # "nil" THEN 1 ELSE 0),
            !.blacklistGeoIP = "nil",
            !.whitelistGeoIP = "nil"]
    /\ UNCHANGED provisionedVars
    /\ ProvisionFrame

\* The Middleware as configured, before Provision.
InitProvision ==
    /\ AnomalyThreshold \in ThresholdInputs
    /\ ipBlacklist = {}
    /\ dnsBlacklist = {}
    /\ CountryWhitelist \in {[Enabled |-> FALSE, CountryList |-> {}],
                             [Enabled |-> TRUE, CountryList |-> {"BR"}]}
    /\ CountryBlacklist \in {[Enabled |-> FALSE, CountryList |-> {}],
                             [Enabled |-> TRUE, CountryList |-> {"US"}]}
    /\ RateLimit \in {0, 1}
    /\ Rules = [p \in Phases |-> << >>]
    /\ ServingIdle
    /\ CacheIdle
    /\ loader = NoLoad
    /\ ipLoad = NoIPLoad
    /\ geo = NoGeo
    /\ logw = NoLog
    /\ watch = NoWatch
    /\ ConcIdle
    /\ \E f \in FallbackBehaviors :
          provision = [NotProvisioned EXCEPT !.pc = "start",
                                             !.configured = AnomalyThreshold,
                                             !.fallback = f]

NextProvision ==
    \/ OpenLogFile
    \/ SetAnomalyThreshold
    \/ StartLogWorker
    \/ ProvisionTor
    \/ StartFileWatchers
    \/ ConfigureRateLimit
    \/ ConfigureGeoIP
    \/ CreateLoaders
    \/ ProvisionIPBlacklist
    \/ ProvisionDNSBlacklist
    \/ ProvisionRules
    \/ \E a \in RemoteAddrs : ProbeChecks(a)
    \/ \E f \in {"rules", "ip", "dns"} : WatchedFileWritten(f)
    \/ WatcherReloadLock
    \/ WatcherReloadUnlock

SpecProvision == InitProvision /\ [][NextProvision]_vars

\* Provision followed by calls of Shutdown.
NextShutdown ==
    \/ OpenLogFile
    \/ SetAnomalyThreshold
    \/ StartLogWorker
    \/ ProvisionTor
    \/ StartFileWatchers
    \/ ConfigureRateLimit
    \/ ConfigureGeoIP
    \/ CreateLoaders
    \/ ProvisionIPBlacklist
    \/ ProvisionDNSBlacklist
    \/ ProvisionRules
    \/ ShutdownCloseGeoIP

SpecShutdown == InitProvision /\ [][NextShutdown]_vars

(* --------------------------- the GeoIP handler ------------------------ *)

GeoFrame ==
    UNCHANGED << AnomalyThreshold, ipBlacklist, dnsBlacklist, CountryWhitelist,
                 CountryBlacklist, RateLimit, Rules, ruleHits, rateCount,
                 blockedRequests, allowedRequests, counters, pc, req, state,
                 phase, chk, idx, whitelisted, resp, respTokens, matched,
                 evaluated, entered, start, served, ops, rlVars,
                 CustomResponses, reloadVars, cacheVars, loadVars, ipLoad,
                 provision, logw, watch,
                 concVars >>

\* What a call found and returned; geoIP is the handle it was given.
Called(fn, remoteAddr, path) ==
    [NoGeoCall EXCEPT !.fn = fn, !.remoteAddr = remoteAddr, !.path = path,
                      !.geoIP = geo.geoIP]

\* handler.LoadGeoIPDatabase(path); a reader that was opened is kept.
CallLoadGeoIPDatabase(path) ==
    /\ LET res == LoadGeoIPDatabase(path) IN
         geo' = [geo EXCEPT
                   !.geoIP = IF res.err THEN @ ELSE res.reader,
                   !.last = [Called("LoadGeoIPDatabase", "none", path)
                               EXCEPT !.err = res.err]]
    /\ GeoFrame

\* The lookups of the open database begin to fail, or work again.
LookupsFail ==
    /\ geo.geoIP \in {"reader", "failing"}
    /\ geo' = [geo EXCEPT !.geoIP = IF @ = "reader" THEN "failing" ELSE "reader",
                          !.last = NoGeoCall]
    /\ GeoFrame

\* handler.IsCountryInList(remoteAddr, countryList, geoIP)
CallIsCountryInList(remoteAddr, countryList) ==
    /\ LET res == IsCountryInList(remoteAddr, countryList, geo.geoIP) IN
         geo' = [geo EXCEPT
                   !.last = [Called("IsCountryInList", remoteAddr, "none")
                               EXCEPT !.err = res.err, !.inList = res.inList]]
    /\ GeoFrame

\* handler.GetCountryCode(remoteAddr, geoIP)
CallGetCountryCode(remoteAddr) ==
    /\ geo' = [geo EXCEPT
                 !.last = [Called("GetCountryCode", remoteAddr, "none")
                             EXCEPT !.code = GetCountryCode(remoteAddr, geo.geoIP)]]
    /\ GeoFrame

\* A request goes through checks 4 and 5 of the decision stack.
CountryChecks(remoteAddr) ==
    /\ geo' = [geo EXCEPT
                 !.last =
                   [Called("checks", remoteAddr, "none") EXCEPT
                      !.err = IsCountryInList(remoteAddr, {}, geo.geoIP).err,
                      !.whitelist = CountryWhitelistCheck(CountryWhitelist,
                                       geo.geoIP, geo.fallback, remoteAddr),
                      !.blacklist = CountryBlacklistCheck(CountryBlacklist,
                                       geo.geoIP, geo.fallback, remoteAddr)]]
    /\ GeoFrame

\* NewGeoIPHandler and WithGeoIPLookupFallbackBehavior, no database loaded.
InitGeo ==
    /\ AnomalyThreshold = ProvisionThreshold(0)
    /\ ipBlacklist = {}
    /\ dnsBlacklist = {}
    /\ CountryWhitelist \in {[Enabled |-> FALSE, CountryList |-> {}],
                             [Enabled |-> TRUE, CountryList |-> {"BR"}]}
    /\ CountryBlacklist \in {[Enabled |-> FALSE, CountryList |-> {}],
                             [Enabled |-> TRUE, CountryList |-> {"US"}]}
    /\ RateLimit = 0
    /\ Rules = loadRules(RuleFile)
    /\ ServingIdle
    /\ CacheIdle
    /\ loader = NoLoad
    /\ ipLoad = NoIPLoad
    /\ provision = NotProvisioned
    /\ logw = NoLog
    /\ watch = NoWatch
    /\ ConcIdle
    /\ \E f \in FallbackBehaviors : geo = [NoGeo EXCEPT !.fallback = f]

NextGeo ==
    \/ \E path \in {"", "missing", "ok"} : CallLoadGeoIPDatabase(path)
    \/ LookupsFail
    \/ \E a \in RemoteAddrs : \E l \in {{"US"}, {"BR"}} : CallIsCountryInList(a, l)
    \/ \E a \in RemoteAddrs : CallGetCountryCode(a)
    \/ \E a \in RemoteAddrs : CountryChecks(a)

SpecGeo == InitGeo /\ [][NextGeo]_vars

(* ----------------------------- the log worker ------------------------- *)

LogBuffer == 1                       \* capacity of logChan (log_buffer)
LogRequests == {"a", "b", "c"}       \* requests that reach their decision

LogFrame ==
    UNCHANGED << pipeVars, rlVars, CustomResponses, reloadVars, cacheVars,
                 loadVars, ipLoad, provision, geo, watch,
                 concVars >>

\* The variant whose send waits for room in the channel.
Enqueue_blocking(ch, dropped, entry) ==
    IF Len(ch) < LogBuffer
      THEN [chan |-> Append(ch, entry), dropped |-> dropped, lost |-> FALSE,
            proceeds |-> TRUE]
      ELSE [chan |-> ch, dropped |-> dropped, lost |-> FALSE,
            proceeds |-> FALSE]

\* The non-blocking send: the entry is queued when the channel has room, else
\* it is dropped and log_dropped is incremented; the sender goes on.
Enqueue(ch, dropped, entry) ==
    IF Len(ch) < LogBuffer
      THEN [chan |-> Append(ch, entry), dropped |-> dropped, lost |-> FALSE,
            proceeds |-> TRUE]
      ELSE [chan |-> ch, dropped |-> dropped + 1, lost |-> TRUE,
            proceeds |-> TRUE]

\* The decision stack reaches its decision for the request.
Decide(r, decision) ==
    /\ logw.pc[r] = "decide"
    /\ logw' = [logw EXCEPT !.pc[r] = "log", !.decision[r] = decision]
    /\ LogFrame

\* logRequest: the entry of the request is sent to logChan.
logRequest(r) ==
    /\ logw.pc[r] = "log"
    /\ LET res == Enqueue(logw.chan, logw.dropped, r) IN
         logw' = [logw EXCEPT
                    !.chan = res.chan,
                    !.dropped = res.dropped,
                    !.lost = IF res.lost THEN @ \cup {r} ELSE @,
                    !.pc[r] = IF res.proceeds THEN "respond" ELSE @]
    /\ LogFrame

\* The request is answered as decided: the block response, or the next handler.
Respond(r) ==
    /\ logw.pc[r] = "respond"
    /\ logw' = [logw EXCEPT !.pc[r] = "done", !.response[r] = logw.decision[r]]
    /\ LogFrame

\* The single consumer takes one entry and forwards it to the sink.
LogWorker ==
    /\ logw.chan # << >>
    /\ logw' = [logw EXCEPT !.chan = Tail(@),
                            !.forwarded = Append(@, Head(logw.chan))]
    /\ LogFrame

InitLog == CoreIdle /\ SystemIdle

NextLog ==
    \/ \E r \in LogRequests : \E d \in {"allow", "block"} : Decide(r, d)
    \/ \E r \in LogRequests : logRequest(r)
    \/ \E r \in LogRequests : Respond(r)
    \/ LogWorker

\* Each request takes its steps; nothing makes the consumer run.
LogFairness ==
    \A r \in LogRequests : WF_vars(logRequest(r)) /\ WF_vars(Respond(r))

SpecLog == InitLog /\ [][NextLog]_vars /\ LogFairness

(* ---------------------------- the file watchers ----------------------- *)

MaxWrites == 2                       \* writes to watched files

\* Paths as sequences of characters.
RulesPath == << "r", "u", "l", "e", "s" >>
WafPath == << "w", "a", "f" >>
IPPath == << "i", "p" >>
RuleIPPath == << "r", "u", "l", "e", "i", "p" >>
DNSPath == << "d", "n", "s" >>

Watched == {"RuleFiles", "IPBlacklistFile", "DNSBlacklistFile"}

\* strings.Contains
Contains(s, sub) ==
    \E i \in 0..(Len(s) - Len(sub)) :
       \A j \in 1..Len(sub) : s[i + j] = sub[j]

WatchFrame ==
    UNCHANGED << pipeVars, rlVars, CustomResponses, reloadVars, cacheVars,
                 loadVars, ipLoad, provision, geo, logw,
                 concVars >>

\* startFileWatcher: a path that does not exist is skipped, every other path
\* gets its goroutine.
startFileWatcher ==
    /\ ~watch.started
    /\ \E exists \in [Watched -> BOOLEAN] :
          watch' = [watch EXCEPT
                      !.started = TRUE,
                      !.task = [f \in Watched |->
                                  IF exists[f] THEN "starting" ELSE "skipped"]]
    /\ WatchFrame

\* fsnotify.NewWatcher and watcher.Add: on an error the goroutine returns.
WatcherAdd(f) ==
    /\ watch.task[f] = "starting"
    /\ \E ok \in BOOLEAN :
          watch' = [watch EXCEPT !.task[f] = IF ok THEN "watching" ELSE "returned"]
    /\ WatchFrame

\* The file is written: fsnotify queues a Write event for a watched file.
WriteWatched(f) ==
    /\ watch.writes < MaxWrites
    /\ watch' = [watch EXCEPT
                   !.writes = @ + 1,
                   !.events[f] = IF watch.task[f] = "watching" THEN @ + 1 ELSE @]
    /\ WatchFrame

\* case event := <-watcher.Events with Op Write: ReloadRules when the path
\* contains "rule", else ReloadConfig.
WatcherEvent(f) ==
    /\ watch.task[f] = "watching"
    /\ watch.events[f] > 0
    /\ watch' = [watch EXCEPT
                   !.events[f] = @ - 1,
                   !.reloads = Append(@,
                      [file |-> f,
                       fn |-> IF Contains(watch.path[f], << "r", "u", "l", "e" >>)
                                THEN "ReloadRules" ELSE "ReloadConfig",
                       isShuttingDown |-> watch.isShuttingDown])]
    /\ WatchFrame

\* case err := <-watcher.Errors: logged, the loop goes on.
WatcherError(f) ==
    /\ watch.task[f] = "watching"
    /\ watch.errors < 1
    /\ watch' = [watch EXCEPT !.errors = @ + 1]
    /\ WatchFrame

\* Shutdown: isShuttingDown is set, the rate limiter cleanup and the log
\* worker are stopped; the watcher goroutines get no signal.
Shutdown ==
    /\ watch.started
    /\ ~watch.isShuttingDown
    /\ watch' = [watch EXCEPT !.isShuttingDown = TRUE]
    /\ WatchFrame

InitWatch ==
    /\ CoreIdle
    /\ CacheIdle
    /\ loader = NoLoad
    /\ ipLoad = NoIPLoad
    /\ provision = NotProvisioned
    /\ geo = NoGeo
    /\ logw = NoLog
    /\ ConcIdle
    /\ \E rules \in {RulesPath, WafPath} : \E ip \in {IPPath, RuleIPPath} :
          watch = [NoWatch EXCEPT !.path = [RuleFiles |-> rules,
                                            IPBlacklistFile |-> ip,
                                            DNSBlacklistFile |-> DNSPath]]

NextWatch ==
    \/ startFileWatcher
    \/ \E f \in Watched : WatcherAdd(f)
    \/ \E f \in Watched : WriteWatched(f)
    \/ \E f \in Watched : WatcherEvent(f)
    \/ \E f \in Watched : WatcherError(f)
    \/ Shutdown

SpecWatch == InitWatch /\ [][NextWatch]_vars

(* ------------------------ the responseRecorder ------------------------ *)

\* Number of calls on one recorder in a behaviour.
MaxCalls == 3

StatusNotFound == 404

\* The byte slices handed to Write, the empty one included.
Chunks == { << >>, << "x" >>, << "y", "z" >> }

RecorderFrame ==
    UNCHANGED << pipeVars, rlVars, CustomResponses, reloadVars, cacheVars,
                 loadVars, ipLoad, provision, geo, logw, watch, hitReqs, mu >>

\* responseRecorder.WriteHeader: r.statusCode = statusCode, and the call is
\* handed on to the wrapped writer.
RecorderWriteHeader(r, statusCode) ==
    [r EXCEPT !.statusCode = statusCode,
              !.wrapped.headers = Append(@, statusCode)]

\* The variant of Write that also hands the bytes to the wrapped writer.
RecorderWrite_forwarding(r, b) ==
    LET h == IF r.statusCode = 0 /\ ~r.written
               THEN RecorderWriteHeader(r, StatusOK) ELSE r
    IN  [h EXCEPT !.body = @ \o b, !.written = TRUE, !.wrapped.body = @ \o b]

\* responseRecorder.Write: WriteHeader(200) when no status is set and nothing
\* was written, then the bytes go to the buffer only, and written is set.
RecorderWrite(r, b) ==
    LET h == IF r.statusCode = 0 /\ ~r.written
               THEN RecorderWriteHeader(r, StatusOK) ELSE r
    IN  [h EXCEPT !.body = @ \o b, !.written = TRUE]

\* responseRecorder.StatusCode: 200 when statusCode is 0.
RecorderStatusCode(r) == IF r.statusCode = 0 THEN StatusOK ELSE r.statusCode

\* responseRecorder.BodyString
BodyString(r) == r.body

\* A caller calls WriteHeader on the recorder.
CallWriteHeader(statusCode) ==
    /\ Len(recorder.calls) < MaxCalls
    /\ recorder' = [RecorderWriteHeader(recorder, statusCode) EXCEPT
                      !.calls = Append(@, [fn |-> "WriteHeader",
                                           statusCode |-> statusCode,
                                           b |-> << >>])]
    /\ RecorderFrame

\* A caller calls Write on the recorder.
CallWrite(b) ==
    /\ Len(recorder.calls) < MaxCalls
    /\ recorder' = [RecorderWrite(recorder, b) EXCEPT
                      !.calls = Append(@, [fn |-> "Write", statusCode |-> 0,
                                           b |-> b])]
    /\ RecorderFrame

InitRecorder == CoreIdle /\ SystemIdle

NextRecorder ==
    \/ \E c \in {StatusOK, StatusForbidden, StatusNotFound} : CallWriteHeader(c)
    \/ \E b \in Chunks : CallWrite(b)

SpecRecorder == InitRecorder /\ [][NextRecorder]_vars

(* ------------------- rule hits of concurrent requests ----------------- *)

\* Number of rule matches, over all requests, in a behaviour.
MaxMatches == 3

\* The requests in flight and the rules that match them.
HitRequests == {"a", "b"}
HitRules == {"R1", "R2"}

HitsFrame ==
    UNCHANGED << AnomalyThreshold, ipBlacklist, dnsBlacklist, CountryWhitelist,
                 CountryBlacklist, RateLimit, Rules, rateCount,
                 blockedRequests, allowedRequests, counters, pc, req, state,
                 phase, chk, idx, whitelisted, resp, respTokens, matched,
                 evaluated, entered, start, served, ops, rlVars,
                 CustomResponses, reloadVars, cacheVars, loadVars, ipLoad,
                 provision, geo, logw, watch, recorder, mu >>

RECURSIVE SumMatches(_, _)
SumMatches(m, ids) ==
    IF ids = {} THEN 0
    ELSE LET id == CHOOSE x \in ids : TRUE
         IN  m[id] + SumMatches(m, ids \ {id})

\* The store that replaces the count without comparing it.
CompareAndSwap_store(hits, id, old, new) ==
    [hits |-> [hits EXCEPT ![id] = new], swapped |-> TRUE]

\* The atomic step on one key of the map: the count is replaced by new only
\* if it is still old.
CompareAndSwap(hits, id, old, new) ==
    IF hits[id] = old
      THEN [hits |-> [hits EXCEPT ![id] = new], swapped |-> TRUE]
      ELSE [hits |-> hits, swapped |-> FALSE]

\* A rule matches the request; its hit is to be counted.
RuleMatches(g, id) ==
    /\ hitReqs.pc[g] = "idle"
    /\ SumMatches(hitReqs.matches, RuleIds) < MaxMatches
    /\ hitReqs' = [hitReqs EXCEPT !.pc[g] = "load", !.id[g] = id,
                                  !.matches[id] = @ + 1]
    /\ UNCHANGED ruleHits
    /\ HitsFrame

\* The request reads the rule's count.
LoadHit(g) ==
    /\ hitReqs.pc[g] = "load"
    /\ hitReqs' = [hitReqs EXCEPT !.pc[g] = "swap",
                                  !.old[g] = ruleHits[hitReqs.id[g]]]
    /\ UNCHANGED ruleHits
    /\ HitsFrame

\* The request puts count + 1 in place of the count it read, and reads
\* again when another request has changed it meanwhile.
SwapHit(g) ==
    /\ hitReqs.pc[g] = "swap"
    /\ LET res == CompareAndSwap(ruleHits, hitReqs.id[g], hitReqs.old[g],
                                 hitReqs.old[g] + 1)
       IN  /\ ruleHits' = res.hits
           /\ hitReqs' = [hitReqs EXCEPT
                            !.pc[g] = IF res.swapped THEN "idle" ELSE "load",
                            !.retries = IF res.swapped THEN @ ELSE 1]
    /\ HitsFrame

InitHits == CoreIdle /\ SystemIdle

NextHits ==
    \/ \E g \in HitRequests : \E id \in HitRules : RuleMatches(g, id)
    \/ \E g \in HitRequests : LoadHit(g)
    \/ \E g \in HitRequests : SwapHit(g)

SpecHits == InitHits /\ [][NextHits]_vars

(* --------------------- concurrent reloads and m.mu -------------------- *)

\* The watcher goroutines that call the reloads.
Reloaders == {"w1", "w2"}

MutexFrame ==
    UNCHANGED << AnomalyThreshold, CountryWhitelist, CountryBlacklist,
                 RateLimit, ruleHits, rateCount, blockedRequests,
                 allowedRequests, counters, pc, req, state, phase, chk, idx,
                 whitelisted, resp, respTokens, matched, evaluated, entered,
                 start, served, ops, rlVars, CustomResponses, reloadVars,
                 cacheVars, loadVars, ipLoad, provision, geo, logw, watch,
                 recorder, hitReqs >>

\* A Lock that never waits.
CanLock_always(holder) == TRUE

\* m.mu.Lock() goes through only while no goroutine holds m.mu.
CanLock(holder) == holder = "none"

\* What a reload has assigned so far: nothing.
NothingWritten == [ip |-> << >>, dns |-> << >>, rules |-> << >>]

\* ReloadRules / ReloadConfig: m.mu.Lock(); ReloadConfig begins with the IP
\* blacklist, ReloadRules with the rules.
ReloadLock(g, fn) ==
    /\ mu.pc[g] = "idle"
    /\ mu.started < MaxReloads
    /\ CanLock(mu.holder)
    /\ mu' = [mu EXCEPT !.holder = g, !.fn[g] = fn,
                        !.pc[g] = IF fn = "ReloadConfig" THEN "ip" ELSE "rules",
                        !.wrote[g] = NothingWritten,
                        !.inside = @ \cup {g}, !.started = @ + 1]
    /\ UNCHANGED << ipBlacklist, dnsBlacklist, Rules >>
    /\ MutexFrame

\* ReloadConfig: the IP blacklist file is loaded into a new trie, which is
\* assigned to m.ipBlacklist; a load that fails returns the error.
LockedReloadIP(g, content, ok) ==
    /\ mu.pc[g] = "ip"
    /\ IF ok
         THEN /\ ipBlacklist' = content
              /\ mu' = [mu EXCEPT !.pc[g] = "dns",
                                  !.wrote[g].ip = << content >>]
         ELSE /\ UNCHANGED ipBlacklist
              /\ mu' = [mu EXCEPT !.pc[g] = "unlock"]
    /\ UNCHANGED << dnsBlacklist, Rules >>
    /\ MutexFrame

\* ReloadConfig: the same for the DNS blacklist.
LockedReloadDNS(g, content, ok) ==
    /\ mu.pc[g] = "dns"
    /\ IF ok
         THEN /\ dnsBlacklist' = content
              /\ mu' = [mu EXCEPT !.pc[g] = "rules",
                                  !.wrote[g].dns = << content >>]
         ELSE /\ UNCHANGED dnsBlacklist
              /\ mu' = [mu EXCEPT !.pc[g] = "unlock"]
    /\ UNCHANGED << ipBlacklist, Rules >>
    /\ MutexFrame

\* Both reloads end with m.loadRules(m.RuleFiles).
LockedLoadRules(g, content) ==
    /\ mu.pc[g] = "rules"
    /\ Rules' = loadRules(content)
    /\ mu' = [mu EXCEPT !.pc[g] = "unlock",
                        !.wrote[g].rules = << loadRules(content) >>]
    /\ UNCHANGED << ipBlacklist, dnsBlacklist >>
    /\ MutexFrame

\* The reload returns: the deferred m.mu.Unlock().
ReloadUnlock(g) ==
    /\ mu.pc[g] = "unlock"
    /\ mu' = [mu EXCEPT !.holder = IF @ = g THEN "none" ELSE @,
                        !.pc[g] = "idle",
                        !.inside = @ \ {g},
                        !.history = Append(@, [g |-> g, fn |-> mu.fn[g],
                                               wrote |-> mu.wrote[g]])]
    /\ UNCHANGED << ipBlacklist, dnsBlacklist, Rules >>
    /\ MutexFrame

\* The Middleware after Provision has loaded the first content of each file.
InitMutex ==
    /\ AnomalyThreshold = ProvisionThreshold(0)
    /\ ipBlacklist = {"10.0.0.1"}
    /\ dnsBlacklist = {"bad.example"}
    /\ CountryWhitelist = [Enabled |-> FALSE, CountryList |-> {}]
    /\ CountryBlacklist = [Enabled |-> FALSE, CountryList |-> {}]
    /\ RateLimit = 0
    /\ Rules = loadRules(RuleFileR1)
    /\ ServingIdle
    /\ SystemIdle

NextMutex ==
    \/ \E g \in Reloaders : \E fn \in {"ReloadRules", "ReloadConfig"} :
          ReloadLock(g, fn)
    \/ \E g \in Reloaders : \E c \in IPFileVersions : \E ok \in BOOLEAN :
          LockedReloadIP(g, c, ok)
    \/ \E g \in Reloaders : \E c \in {{}, {"bad.example"}} : \E ok \in BOOLEAN :
          LockedReloadDNS(g, c, ok)
    \/ \E g \in Reloaders : \E c \in RuleFileVersions : LockedLoadRules(g, c)
    \/ \E g \in Reloaders : ReloadUnlock(g)

SpecMutex == InitMutex /\ [][NextMutex]_vars

(* ============================ properties ============================== *)

InFlight == served > 0

\* The phase has been halted: no further rule of it will be evaluated.
PhaseHalted == pc \in {"phase_end", "blocked", "done"}

\* C1: whenever the total score of a request is at or above the anomaly
\* threshold, the request is blocked with status 403 and the phase has been
\* halted; and from a state whose score has reached the threshold, every
\* further step of the same request leaves it blocked.
C1_ThresholdLatchesBlock ==
    [][ /\ state'.TotalScore >= AnomalyThreshold
            => /\ state'.Blocked
               /\ state'.StatusCode = StatusForbidden
               /\ PhaseHalted'
        /\ (served' = served /\ state.TotalScore >= AnomalyThreshold)
            => state'.Blocked ]_vars

\* C1 witness: a request blocked by the accumulated score of log rules alone.
C1_Witness ==
    /\ pc = "blocked"
    /\ state.TotalScore >= AnomalyThreshold
    /\ state.Blocked
    /\ Len(matched) >= 2
    /\ \A i \in 1..Len(matched) : matched[i].action = "log"

HasBlockMatch == \E i \in 1..Len(matched) : matched[i].action = "block"

\* C2: a request one of whose matched rules has action block is blocked with
\* status 403 from that match on (hence after that rule's phase), whatever
\* the rule's score and whether or not the total has reached the threshold.
C2_BlockRuleBlocks ==
    HasBlockMatch => (state.Blocked /\ state.StatusCode = StatusForbidden)

\* C2 witness: blocked by a block rule of score 0 with the total below the
\* threshold.
C2_Witness ==
    /\ pc = "blocked"
    /\ HasBlockMatch
    /\ matched[Len(matched)].score = 0
    /\ state.TotalScore < AnomalyThreshold
    /\ state.Blocked

\* C3: Blocked is a latch: no operation applied to a WAFState whose Blocked
\* is true (a rule match, allowRequest, a second blockRequest) leaves it false.
C3_BlockedIsLatch ==
    [][ (state.Blocked /\ served' = served) => state'.Blocked ]_vars

Range(f) == {f[i] : i \in DOMAIN f}

IsPrefix(a, b) == Len(a) <= Len(b) /\ a = SubSeq(b, 1, Len(a))

\* The request in flight (or the last one served) has been through the
\* pre-rule checks.
ChecksDone == served > 0 /\ pc # "checks"

WhitelistActive == CountryWhitelist.Enabled /\ CountryWhitelist.CountryList # {}

\* Whether a pre-rule check, taken alone, blocks the request in flight, given
\* the configuration and the rate-limit counts at its arrival.
WouldFire(check) ==
    CASE check = "ip_blacklist" -> req.ip \in ipBlacklist
      [] check = "dns_blacklist" -> ReverseHost(req.ip) \in dnsBlacklist
      [] check = "rate_limit" ->
            RateLimit > 0 /\ ~req.elapsed /\ start.rate[req.ip] >= RateLimit
      [] check = "country_whitelist" ->
            WhitelistActive /\ req.country \notin CountryWhitelist.CountryList
      [] check = "country_blacklist" ->
            /\ CountryBlacklist.Enabled
            /\ req.country \in CountryBlacklist.CountryList
            /\ ~(WhitelistActive /\ req.country \in CountryWhitelist.CountryList)

ReasonOf(check) ==
    CASE check = "country_whitelist" -> "country_not_whitelisted"
      [] check = "country_blacklist" -> "country_blacklisted"
      [] OTHER -> check

StatusOf(check) ==
    IF check = "rate_limit" THEN StatusTooManyRequests ELSE StatusForbidden

\* The response of a request blocked by a pre-rule check.
BlockedBy(check) ==
    /\ state.Blocked
    /\ state.StatusCode = StatusOf(check)
    /\ resp.status = StatusOf(check)
    /\ resp.body = << << "blocked", ReasonOf(check) >> >>
    /\ matched = << >>

StatedOrder ==
    << "ip_blacklist", "dns_blacklist", "rate_limit",
       "country_whitelist", "country_blacklist" >>

Firing == {i \in 1..Len(StatedOrder) : WouldFire(StatedOrder[i])}

FirstFiring == CHOOSE i \in Firing : \A j \in Firing : i <= j

\* C4: the pre-rule checks run in the order IP blacklist, DNS blacklist, rate
\* limit, country whitelist, country blacklist; the first one that fires
\* blocks with its own reason and status and no later one is evaluated; when
\* none fires all five are evaluated and none of them blocks.
C4_StackPriority ==
    served > 0 =>
        /\ IsPrefix(evaluated, StatedOrder)
        /\ \A i \in 1..Len(evaluated) - 1 : ~WouldFire(StatedOrder[i])
        /\ ChecksDone =>
             IF Firing = {}
               THEN /\ evaluated = StatedOrder
                    /\ \A i \in 1..Len(StatedOrder) :
                          << "blocked", ReasonOf(StatedOrder[i]) >> \notin Range(resp.body)
               ELSE /\ evaluated = SubSeq(StatedOrder, 1, FirstFiring)
                    /\ BlockedBy(StatedOrder[FirstFiring])

\* C4 witness: a rate-limited request from a country off the whitelist is
\* answered 429 rate_limit, the country checks not being evaluated.
C4_Witness ==
    /\ pc = "blocked"
    /\ WouldFire("rate_limit")
    /\ WouldFire("country_whitelist")
    /\ ~WouldFire("ip_blacklist")
    /\ ~WouldFire("dns_blacklist")
    /\ BlockedBy("rate_limit")
    /\ evaluated = << "ip_blacklist", "dns_blacklist", "rate_limit" >>

\* C5: a request from a blacklisted IP is blocked 403 ip_blacklist before
\* any rule: while it is in flight no rule-hit counter and no rate-limiter
\* counter differs from its value at the request's arrival.
C5_IPBlacklistFrame ==
    (InFlight /\ req.ip \in ipBlacklist) =>
        /\ ruleHits = start.hits
        /\ rateCount = start.rate
        /\ counters.rateLimiterRequests = start.rlRequests
        /\ counters.rateLimiterBlocked = start.rlBlocked
        /\ matched = << >>
        /\ phase = 1
        /\ pc # "checks" => BlockedBy("ip_blacklist")

\* C5 witness: such a request, blocked, although the phase-1 rules on "foo"
\* would have matched it and a rate limiter is configured.
C5_Witness ==
    /\ pc = "blocked"
    /\ req.ip \in ipBlacklist
    /\ "foo" \in req.tokens
    /\ \E i \in 1..Len(Rules[1]) : Rules[1][i].Pattern = "foo"
    /\ RateLimit > 0
    /\ BlockedBy("ip_blacklist")

\* C6: with the whitelist enabled and non-empty, a request whose country is
\* on the whitelist is never blocked by the country blacklist.
C6_WhitelistDominance ==
    (served > 0 /\ WhitelistActive /\ req.country \in CountryWhitelist.CountryList)
        => << "blocked", "country_blacklisted" >> \notin Range(resp.body)

\* C6 witness: a country on both lists; the blacklist check was evaluated,
\* and the request went through to the end, allowed.
C6_Witness ==
    /\ pc = "done"
    /\ WhitelistActive
    /\ req.country \in CountryWhitelist.CountryList
    /\ CountryBlacklist.Enabled
    /\ req.country \in CountryBlacklist.CountryList
    /\ "country_blacklist" \in Range(evaluated)
    /\ ~state.Blocked

NotWhitelisted == WhitelistActive /\ req.country \notin CountryWhitelist.CountryList

\* C7 as stated: with the whitelist enabled and non-empty, every request
\* whose country is off the whitelist is blocked 403 country_not_whitelisted.
C7_Original ==
    (ChecksDone /\ NotWhitelisted) => BlockedBy("country_whitelist")

\* C7 as amended: ... every such request that no higher-priority check (IP
\* blacklist, DNS blacklist, rate limit) blocks is blocked 403
\* country_not_whitelisted, whether or not its country is on the blacklist.
C7_NotWhitelistedBlocked ==
    ( /\ ChecksDone
      /\ NotWhitelisted
      /\ ~WouldFire("ip_blacklist")
      /\ ~WouldFire("dns_blacklist")
      /\ ~WouldFire("rate_limit") )
        => BlockedBy("country_whitelist")

\* C7 witness: a country off the whitelist and on the enabled blacklist,
\* blocked as not whitelisted.
C7_Witness ==
    /\ pc = "blocked"
    /\ NotWhitelisted
    /\ CountryBlacklist.Enabled
    /\ req.country \in CountryBlacklist.CountryList
    /\ BlockedBy("country_whitelist")

StageOrder == << "phase1", "phase2", "handler", "phase3", "phase4" >>

\* C8: once a block is latched in phase 1 or 2, every further step of the
\* request leaves the stages entered as they are - no later phase, no call
\* of the downstream handler - and the block in place; so the transitions
\* PHASE1 -> PHASE2 and PHASE2 -> HANDLER are taken only while not blocked.
C8_BlockSkipsHandler ==
    [][ /\ (state'.Blocked /\ phase' \in {1, 2})
            => /\ "handler" \notin Range(entered')
               /\ entered' = SubSeq(StageOrder, 1, phase')
        /\ (served' = served /\ state.Blocked /\ phase \in {1, 2})
            => /\ entered' = entered
               /\ phase' = phase
               /\ state'.Blocked
        /\ (served' = served /\ phase \in {1, 2} /\ entered' # entered)
            => ~state.Blocked ]_vars

\* C8 witness: a request blocked in phase 2 has come to its end with phase 1
\* and phase 2 the only stages entered.
C8_Witness ==
    /\ pc = "blocked"
    /\ state.Blocked
    /\ phase = 2
    /\ entered = << "phase1", "phase2" >>

\* (phase, priority, id) order of two entries of matched_rules.
MatchedBefore(a, b) ==
    \/ a.phase < b.phase
    \/ a.phase = b.phase /\ a.priority < b.priority
    \/ a.phase = b.phase /\ a.priority = b.priority /\ IdRank(a.id) < IdRank(b.id)

\* C9: the stages of a request are entered in the order phase 1, phase 2,
\* handler, phase 3, phase 4, and the matched rules of a request appear in
\* ascending (phase, priority, id) order.
C9_EvaluationOrder ==
    /\ IsPrefix(entered, StageOrder)
    /\ \A i, j \in 1..Len(matched) : i < j => MatchedBefore(matched[i], matched[j])

\* C9 witness: three phase-1 matches, ordered by priority and then by id
\* and not in file order (R2, R1, R3), followed by a phase-2 match.
C9_Witness ==
    /\ Len(matched) = 4
    /\ matched[1].id = "R3" /\ matched[2].id = "R1" /\ matched[3].id = "R2"
    /\ matched[4].id = "B1" /\ matched[4].phase = 2
    /\ entered = << "phase1", "phase2" >>

\* C10: no step of a request lowers WAFState.TotalScore (so the score at
\* the end of a phase is at least the score at its start).
C10_ScoreMonotonic ==
    [][ served' = served => state'.TotalScore >= state.TotalScore ]_vars

\* C10 witness: a score that has grown over several phases.
C10_Witness ==
    /\ pc = "done"
    /\ phase = 4
    /\ state.TotalScore >= 4
    /\ \E i \in 1..Len(matched) : matched[i].phase = 1
    /\ \E i \in 1..Len(matched) : matched[i].phase = 4

(* ----------------------------- rate limiter --------------------------- *)

\* The allowed checks whose time lies in the interval [s, s + window).
AllowedIn(s) ==
    {i \in 1..Len(rlLog) :
        rlLog[i].allow /\ s <= rlLog[i].t /\ rlLog[i].t < s + rlCfg.window}

\* C11: for the key, in every time interval of length window, at most
\* `requests` checks are allowed.
C11_RateLimiterBound ==
    \A s \in 0..MaxTime : Cardinality(AllowedIn(s)) <= rlCfg.requests

\* The first n checks of the key are allowed and the next one is denied.
AllowedThenDenied(n) ==
    /\ \A i \in 1..n : rlLog[i].allow
    /\ ~rlLog[n + 1].allow

\* The first requests + 1 checks of the key lie inside one window.
BurstInWindow ==
    /\ Len(rlLog) >= rlCfg.requests + 1
    /\ rlLog[rlCfg.requests + 1].t - rlLog[1].t < rlCfg.window

\* Check j comes more than a window after the first counted check, every
\* check between the first `requests` ones and it having been denied.
AfterWindow(j) ==
    /\ j > rlCfg.requests
    /\ j <= Len(rlLog)
    /\ \A i \in 1..rlCfg.requests : rlLog[i].allow
    /\ \A i \in (rlCfg.requests + 1)..(j - 1) : ~rlLog[i].allow
    /\ rlLog[j].t - rlLog[1].t > rlCfg.window

\* C12: requests + 1 checks of one key inside one window give `requests`
\* allowed and then one denied; a check made more than a window after the
\* first counted one is allowed again, denied checks in between or not.
C12_WindowScenario ==
    /\ BurstInWindow => AllowedThenDenied(rlCfg.requests)
    /\ \A j \in 1..Len(rlLog) : AfterWindow(j) => rlLog[j].allow

(* ---------------------------- response writes ------------------------- *)

\* The block responses written to a response so far.
BlockWrites(r) == SelectSeq(r.body, LAMBDA c : c[1] \in {"blocked", "custom"})

\* C13: ResponseWritten is set once: no operation on a WAFState whose
\* ResponseWritten is true sets it back to false, and none writes a further
\* block response.
C13_ResponseWrittenOnce ==
    [][ (state.ResponseWritten /\ served' = served)
            => /\ state'.ResponseWritten
               /\ BlockWrites(resp') = BlockWrites(resp) ]_vars

\* C14: a blockRequest call on a state whose ResponseWritten is already true
\* writes no header and no body and leaves the blocked-requests metric alone.
C14_BlockWriteIdempotent ==
    [][ \A c \in {StatusForbidden, StatusTooManyRequests} :
          \A why \in {"ip_blacklist", "rate_limit"} :
            (state.ResponseWritten /\ OpBlockRequest(c, why))
                => (resp' = resp /\ blockedRequests' = blockedRequests) ]_vars

BlockStatuses == {StatusForbidden, StatusTooManyRequests}

BlockReasons == {"ip_blacklist", "rate_limit"}

\* C15: with an entry for the block status code in CustomResponses, a block
\* with that status gives a response whose body is exactly the entry's body,
\* whose status is the entry's StatusCode and whose headers include every
\* header of the entry.
C15_CustomResponseUsed ==
    [][ \A c \in BlockStatuses : \A why \in BlockReasons :
          ( /\ resp = EmptyResponse
            /\ c \in DOMAIN CustomResponses.entries
            /\ OpBlockRequest(c, why) )
            => LET e == CustomResponses.entries[c] IN
                 /\ resp'.body = << << "custom", e.Body >> >>
                 /\ resp'.sent.status = e.StatusCode
                 /\ e.Headers \subseteq resp'.sent.headers ]_vars

\* C16: without an entry for the block status code in CustomResponses - also
\* when there are entries for other status codes - a block gives a response
\* with Content-Type text/plain, the block status code and the default body
\* naming the reason.
C16_DefaultResponse ==
    [][ \A c \in BlockStatuses : \A why \in BlockReasons :
          ( /\ resp = EmptyResponse
            /\ c \notin DOMAIN CustomResponses.entries
            /\ OpBlockRequest(c, why) )
            => /\ resp'.sent.contentType = "text/plain"
               /\ resp'.sent.status = c
               /\ resp'.body = << << "blocked", why >> >> ]_vars

(* ------------------------------- reloads ------------------------------ *)

\* The RuleSets and IPSets that a load of some content of the files gives.
RuleSetGenerations == {loadRules(v) : v \in RuleFileVersions}

\* C17: whatever the interleaving of reloads and requests, the RuleSet and
\* the IPSet a lookup can see are those of a whole generation: the rule list
\* a phase lookup saw is that phase's list in the generation installed at
\* the lookup, and the IPSet a blacklist lookup saw is the whole content of
\* a version of the file, never part of it.
C17_ReloadAtomic ==
    /\ Rules \in RuleSetGenerations
    /\ ipBlacklist \in IPFileVersions
    /\ rq.active => rq.seenIP \in IPFileVersions
    /\ \A p \in 1..Len(rq.seen) :
          /\ rq.seenGen[p] \in 1..Len(gens)
          /\ rq.seen[p] = gens[rq.seenGen[p]][p]

\* C17 witness: a request made its blacklist lookup while ReloadConfig had
\* its new trie half-built, and a phase lookup after that.
C17_Witness ==
    /\ rq.active
    /\ rq.ipLookupMidLoad
    /\ rq.phase >= 1
    /\ rq.seenIP \in IPFileVersions

\* C18: when a reload returns an error, ipBlacklist, dnsBlacklist and Rules
\* are what they were when it started.
C18_FailedReloadKeepsGeneration ==
    (reload.pc = "returned" /\ reload.result = "error")
        => References = reload.before

\* C19 as stated: a request completes all its phases against the generation
\* under which it began phase 1.
C19_Original ==
    \A p \in 1..Len(rq.seen) : rq.seen[p] = gens[rq.seenGen[1]][p]

\* The rules of the generations from number a to number b.
RulesOfGenerations(a, b) ==
    UNION {Range(gens[g][p]) : g \in a..b, p \in Phases}

\* C19 as amended: each phase of a request is evaluated entirely against
\* the generation installed when the phase began; that generation is never
\* older than the one installed when the request started, so a request that
\* starts after a reload sees only the new rules; and no request sees a rule
\* outside the generations installed during it.
C19_HotReload ==
    \A p \in 1..Len(rq.seen) :
        /\ rq.seen[p] = gens[rq.seenGen[p]][p]
        /\ rq.startGen <= rq.seenGen[p]
        /\ rq.seenGen[p] <= Len(gens)
        /\ p > 1 => rq.seenGen[p - 1] <= rq.seenGen[p]
        /\ Range(rq.seen[p]) \subseteq RulesOfGenerations(rq.startGen, Len(gens))

\* C19 witness: a request began phase 1 under R1, the file was rewritten
\* with R2 only and reloaded, and the request went on: phase 1 saw R1 and
\* phase 2 saw R2.
C19_Witness ==
    /\ rq.active
    /\ rq.phase = 4
    /\ rq.seenGen[1] < rq.seenGen[2]
    /\ rq.seen[1] = RuleFileR1
    /\ rq.seen[2] = RuleFileR2

\* A request that started after the reload to R2 sees only R2.
C19_WitnessAfter ==
    /\ rq.active
    /\ rq.phase = 4
    /\ rq.startGen = 2
    /\ gens = << loadRules(RuleFileR1), loadRules(RuleFileR2) >>
    /\ \A p \in Phases : rq.seen[p] = loadRules(RuleFileR2)[p]

(* ------------------------- requests with no signal -------------------- *)

\* The loaded rules that match the request in flight: request-side rules on
\* its values, response-side rules on the downstream response.
MatchingRules ==
    {r \in UNION {Range(Rules[p]) : p \in Phases} :
        r.Pattern \in (IF r.Phase <= 2 THEN req.tokens ELSE respTokens)}

RECURSIVE SumScores(_)
SumScores(S) ==
    IF S = {} THEN 0
    ELSE LET r == CHOOSE x \in S : TRUE IN r.Score + SumScores(S \ {r})

\* The request in flight triggers no signal: no pre-rule check fires, no
\* block rule matches, and the scores of the matching rules stay below the
\* threshold.
NoSignal ==
    /\ served > 0
    /\ \A i \in 1..Len(StatedOrder) : ~WouldFire(StatedOrder[i])
    /\ \A r \in MatchingRules : r.Action # "block"
    /\ SumScores(MatchingRules) < AnomalyThreshold

\* C20: a request that triggers no signal is never blocked and no block
\* response is written for it; when it is done the downstream handler has
\* been called, the response is the handler's status and body, its state has
\* Blocked false and ResponseWritten false, and the step that completes it
\* adds one to allowed_requests and nothing to blocked_requests.
C20_NoSignalAllowed ==
    [][ NoSignal' =>
          /\ pc' # "blocked"
          /\ ~state'.Blocked
          /\ BlockWrites(resp') = << >>
          /\ pc' = "done" =>
                /\ entered' = StageOrder
                /\ resp'.body = << << "downstream", "" >> >>
                /\ resp'.sent.status = StatusOK
                /\ resp'.status = StatusOK
                /\ ~state'.ResponseWritten
          /\ (pc' = "done" /\ pc # "done") =>
                /\ allowedRequests' = allowedRequests + 1
                /\ blockedRequests' = blockedRequests ]_vars

\* C20 witness: a request that rules have matched, with a rate limiter and
\* both blacklists configured, has gone through without a signal and has
\* been allowed.
C20_Witness ==
    /\ pc = "done"
    /\ NoSignal
    /\ Len(matched) >= 2
    /\ RateLimit > 0
    /\ ipBlacklist # {}
    /\ dnsBlacklist # {}
    /\ CountryBlacklist.Enabled
    /\ allowedRequests >= 1

(* ------------------------------ rule cache ---------------------------- *)

\* What Get(k) is to return after the Set calls of history h: the regex of
\* the last Set on k, or a miss when there was none.
LastSet(k, h) ==
    LET on == {i \in 1..Len(h) : h[i][1] = k} IN
      IF on = {} THEN [regex |-> "nil", exists |-> FALSE]
      ELSE [regex |-> h[CHOOSE i \in on : \A j \in on : j <= i][2],
            exists |-> TRUE]

\* C21: every Get(k), also with other readers and the writer at work,
\* returns the regex of the most recent Set(k, r) with hit = true, and
\* hit = false exactly when no Set on k has happened; the entry of every
\* key is the one of its own last Set, whatever was set on other keys.
C21_CacheLookup ==
    /\ \A g \in CacheReaders :
          calls[g].pc \in {"read", "returned"}
            => [regex |-> calls[g].got, exists |-> calls[g].hit]
                 = LastSet(calls[g].key, SubSeq(sets, 1, calls[g].seen))
    /\ \A k \in CacheKeys : Lookup(ruleCache.rules, k) = LastSet(k, sets)

\* A Get returned the second regex set on its key, and the other reader is
\* inside a Get on the other key that missed.
C21_Witness ==
    /\ calls["g1"].pc = "returned"
    /\ calls["g1"].hit
    /\ calls["g1"].key = "rule1"
    /\ calls["g1"].got = "re2"
    /\ sets = << << "rule1", "re1" >>, << "rule1", "re2" >> >>
    /\ calls["g2"].pc = "read"
    /\ ~calls["g2"].hit
    /\ calls["g2"].key = "rule2"

(* ------------------------------ rule loader --------------------------- *)

\* The rules of the current RuleSet, of every phase.
LoadedRules == UNION {Range(Rules[p]) : p \in DOMAIN Rules}

\* C22: any two loaded rules with the same pattern source hold the same
\* compiled regex - the pattern is compiled once and shared, also between
\* rules with different IDs.
C22_SharedCompile ==
    \A a, b \in LoadedRules : a.Pattern = b.Pattern => a.regex = b.regex

RECURSIVE Contents(_)
Contents(paths) ==
    IF paths = << >> THEN << >>
    ELSE Head(paths).content \o Contents(Tail(paths))

\* The rule invariants of the data model.
SatisfiesInvariants(r) ==
    /\ r.ID # ""
    /\ r.Phase >= 1
    /\ r.Phase <= 4
    /\ r.Score >= 0
    /\ r.Pattern # "("
    /\ r.Action \in {"log", "block", "challenge"}

\* The i-th rule object of the load is sound and no sound object before it
\* has its ID.
Accepted(objs, i) ==
    /\ SatisfiesInvariants(objs[i])
    /\ \A j \in 1..(i - 1) :
          SatisfiesInvariants(objs[j]) => objs[j].ID # objs[i].ID

WithoutRegex(r) ==
    [ID |-> r.ID, Phase |-> r.Phase, Pattern |-> r.Pattern, Score |-> r.Score,
     Action |-> r.Action, Priority |-> r.Priority]

EntryPrefix(e) ==
    LET addr == AddrTexts[e[1]] IN
      IF Len(e) = 1
        THEN [addr |-> Masked(addr, IF addr.v6 THEN 64 ELSE 32),
              bits |-> IF addr.v6 THEN 64 ELSE 32]
        ELSE [addr |-> Masked(addr, Bits[e[2]]), bits |-> Bits[e[2]]]

ValidEntry(e) ==
    /\ e[1] \in DOMAIN AddrTexts
    /\ Len(e) = 1 \/ (Len(e) = 2 /\ e[2] \in DOMAIN Bits)

\* C24: once loadIPBlacklist has returned, the prefix of every valid entry
\* of the file is in the IP set, so that every address inside it is found.
C24_EveryEntryInserted ==
    ipLoad.pc = "returned" =>
      \A e \in ipLoad.file :
         ValidEntry(e) =>
           /\ EntryPrefix(e) \in ipBlacklist
           /\ \A t \in DOMAIN AddrTexts :
                 Covers(EntryPrefix(e), AddrTexts[t])
                   => TrieContains(ipBlacklist, AddrTexts[t])

(* ------------------------------- Provision ---------------------------- *)

ProvisionedOK == provision.pc = "returned" /\ provision.result = "nil"

\* C23: whenever Provision has returned nil, the anomaly threshold is
\* positive: the configured value when that is above 0, else 20.
C23_ThresholdPositive ==
    ProvisionedOK =>
      /\ AnomalyThreshold > 0
      /\ AnomalyThreshold = (IF provision.configured > 0
                               THEN provision.configured ELSE 20)

\* C25: with a configured IP blacklist, DNS blacklist or GeoIP database that
\* does not exist, Provision returns nil all the same and the check that
\* rests on the missing file blocks no request.
C25_MissingFileDisablesCheck ==
    /\ provision.pc = "returned" =>
         /\ provision.ipFile = "missing"
               => provision.result # "failed to load IP blacklist"
         /\ provision.dnsFile = "missing"
               => provision.result # "failed to load DNS blacklist"
         /\ provision.geoIPPath = "missing"
               => provision.result \in {"nil", "failed to load IP blacklist",
                                        "failed to load rules"}
    /\ ProvisionedOK /\ provision.probe.remoteAddr # "none" =>
         /\ provision.ipFile = "missing" => provision.probe.ip = "pass"
         /\ provision.dnsFile = "missing" => provision.probe.dns = "pass"
         /\ provision.geoIPPath = "missing" =>
               /\ provision.probe.whitelist = "pass"
               /\ provision.probe.blacklist = "pass"

(* ---------------------------- GeoIP handler --------------------------- *)

\* The call was made without a database or with a text that is no IP.
Unavailable == geo.last.geoIP = "nil" \/ geo.last.remoteAddr \notin IPs

\* C26: when the lookup fails for a request, a country check that is
\* enabled lets it pass under default_allow and blocks it under
\* default_deny, whatever the lists hold; the error decides nothing itself.
C26_FallbackDecides ==
    geo.last.fn = "checks" /\ geo.last.err =>
      LET verdict == IF geo.fallback = "default_allow" THEN "pass" ELSE "block" IN
        /\ CountryWhitelist.Enabled /\ CountryWhitelist.CountryList # {}
              => geo.last.whitelist = verdict
        /\ CountryBlacklist.Enabled => geo.last.blacklist = verdict

\* The lookup failed on an open database under default_allow with both
\* checks enabled, and the request passed both.
C26_Witness ==
    /\ geo.last.fn = "checks"
    /\ geo.last.err
    /\ geo.last.geoIP = "failing"
    /\ geo.last.remoteAddr = "10.0.0.1"
    /\ geo.fallback = "default_allow"
    /\ CountryWhitelist.Enabled
    /\ CountryBlacklist.Enabled
    /\ geo.last.whitelist = "pass"
    /\ geo.last.blacklist = "pass"

\* C27: IsCountryInList returns an error whenever the database handle is nil
\* or the remote address is no IP, LoadGeoIPDatabase returns an error for an
\* empty and for a non-existent path, and GetCountryCode returns N/A in the
\* nil-database and invalid-IP cases.
C27_UnavailableIsError ==
    /\ geo.last.fn = "IsCountryInList" /\ Unavailable => geo.last.err
    /\ geo.last.fn = "LoadGeoIPDatabase" /\ geo.last.path \in {"", "missing"}
          => geo.last.err
    /\ geo.last.fn = "GetCountryCode" /\ Unavailable => geo.last.code = "N/A"

\* IsCountryInList was called with an open database and a text that is no
\* IP, and returned an error.
C27_Witness ==
    /\ geo.last.fn = "IsCountryInList"
    /\ geo.last.geoIP = "reader"
    /\ geo.last.remoteAddr = "invalid-ip"
    /\ geo.last.err

(* ------------------------------ log worker ---------------------------- *)

\* C28: sending a log entry never blocks the request: with a full channel
\* the entry is dropped and log_dropped incremented, else it is queued; and
\* every request that reached its decision is answered as decided, whether
\* or not the consumer ever runs.
C28_LogNeverBlocks ==
    /\ [][\A r \in LogRequests :
            logw.pc[r] = "log" /\ logw'.pc[r] # "log" =>
              IF Len(logw.chan) = LogBuffer
                THEN /\ logw'.chan = logw.chan
                     /\ logw'.dropped = logw.dropped + 1
                ELSE /\ logw'.chan = Append(logw.chan, r)
                     /\ logw'.dropped = logw.dropped]_vars
    /\ \A r \in LogRequests :
          logw.pc[r] = "log" ~>
             (logw.pc[r] = "done" /\ logw.response[r] = logw.decision[r])

\* The consumer never ran, the channel is full, the entry of a blocked
\* request was dropped and counted, and the request got its block response.
C28_Witness ==
    /\ logw.forwarded = << >>
    /\ Len(logw.chan) = LogBuffer
    /\ "c" \in logw.lost
    /\ logw.dropped >= 1
    /\ logw.decision["c"] = "block"
    /\ logw.pc["c"] = "done"
    /\ logw.response["c"] = "block"

(* ----------------------------- file watchers -------------------------- *)

\* C29: no reload is triggered by a watcher task after Shutdown was called.
C29_NoReloadAfterShutdown ==
    \A i \in DOMAIN watch.reloads : ~watch.reloads[i].isShuttingDown

(* ------------------------- Provision, watchers ------------------------ *)

\* C33: whenever Provision returns nil the log worker has been started, the
\* loaders, the GeoIP handler and the value extractor have been created, and
\* every configured blacklist and rule file has been loaded.
C33_ProvisionComplete ==
    ProvisionedOK =>
      /\ provision.logWorker
      /\ provision.loaders
      /\ provision.ipFile = "ok" => ipBlacklist = {"10.0.0.1"}
      /\ provision.dnsFile = "ok" => dnsBlacklist = {"bad.example"}
      /\ provision.ruleFiles = "ok" => Rules = loadRules(RuleFileR1)

\* C35: a write to a watched IP or DNS blacklist file is answered by
\* ReloadConfig, which swaps in new blacklists, and a write to a rule file
\* by a reload of the rules, whatever the path of the file is.
C35_WriteReloadsArtifact ==
    \A i \in DOMAIN watch.reloads :
       watch.reloads[i].file \in {"IPBlacklistFile", "DNSBlacklistFile"}
          => watch.reloads[i].fn = "ReloadConfig"

\* C34: a reload triggered by a watcher begins only after Provision has
\* created the blacklist loader and made its loads of the blacklists and the
\* rules, and no step of Provision falls inside the reload.
C34_ReloadAfterProvision ==
    /\ provision.watcherReload.pc \in {"running", "done"} =>
         /\ provision.watcherReload.began = "returned"
         /\ provision.watcherReload.loaders \/ provision.result # "nil"
    /\ provision.watcherReload.pc = "done" =>
         provision.watcherReload.ended = provision.watcherReload.began

\* C36: Shutdown closes the GeoIP reader that Provision opened exactly once,
\* also when both country filters hold it, and leaves both handles nil, so
\* that another Shutdown closes nothing.
C36_ReaderClosedOnce ==
    /\ provision.closed <= 1
    /\ provision.shutdowns >= 1 =>
         /\ provision.blacklistGeoIP = "nil"
         /\ provision.whitelistGeoIP = "nil"
         /\ provision.geoIPPath = "ok" => provision.closed = 1

(* ------------------------------- metrics ------------------------------ *)

\* C37: a single request, the one whose WAFState the operations are applied
\* to, never adds more than 1 to blocked_requests, however many checks or
\* phases decide to block it.
C37_BlockedCountedOnce == blockedRequests <= 1

(* --------------------------- responseRecorder ------------------------- *)

\* The bytes of the Write calls among the first n calls, in order.
RECURSIVE Written(_, _)
Written(cs, n) ==
    IF n = 0 THEN << >>
    ELSE Written(cs, n - 1) \o
           (IF cs[n].fn = "Write" THEN cs[n].b ELSE << >>)

\* The status codes of the WriteHeader calls, in order.
HeaderCalls(cs) ==
    LET hs == SelectSeq(cs, LAMBDA c : c.fn = "WriteHeader")
    IN  [i \in 1..Len(hs) |-> hs[i].statusCode]

\* C39: after any sequence of WriteHeader and Write calls BodyString() is the
\* bytes of the Write calls in order and none of them has reached the wrapped
\* writer; StatusCode() is the status of the last WriteHeader call, or 200
\* when a Write came first or nothing was written; and the Write calls have
\* forwarded at most one header, a 200, to the wrapped writer.
C39_RecorderCaptures ==
    LET cs == recorder.calls
        hs == HeaderCalls(cs)
        fwd == recorder.wrapped.headers
    IN  /\ BodyString(recorder) = Written(cs, Len(cs))
        /\ recorder.wrapped.body = << >>
        /\ RecorderStatusCode(recorder)
             = IF hs = << >> THEN StatusOK ELSE hs[Len(hs)]
        /\ \/ fwd = hs
           \/ /\ fwd = << StatusOK >> \o hs
              /\ cs # << >>
              /\ cs[1].fn = "Write"

\* Write came first and forwarded its 200, a WriteHeader(403) followed, and
\* a second Write added its bytes to the buffer.
C39_Witness ==
    /\ Len(recorder.calls) = 3
    /\ recorder.calls[1].fn = "Write"
    /\ recorder.calls[2] = [fn |-> "WriteHeader", statusCode |-> StatusForbidden,
                            b |-> << >>]
    /\ recorder.calls[3].fn = "Write"
    /\ recorder.calls[3].b = << "y", "z" >>
    /\ recorder.calls[1].b = << "x" >>
    /\ BodyString(recorder) = << "x", "y", "z" >>
    /\ recorder.wrapped.headers = << StatusOK, StatusForbidden >>
    /\ RecorderStatusCode(recorder) = StatusForbidden

(* ------------------------ rate limiter cleanup ------------------------ *)

\* The step drops the key's RateCounter: the ring changes and no check is
\* made.
Evicts == rlLog' = rlLog /\ ring' # ring

C32_NoLostHit ==
    /\ \A id \in RuleIds : ruleHits[id] <= hitReqs.matches[id]
    /\ (\A g \in HitRequests : hitReqs.pc[g] = "idle")
          => \A id \in RuleIds : ruleHits[id] = hitReqs.matches[id]

\* Both requests matched R1 at the same time, one of them found the count
\* changed and read it again, and both hits are counted.
C32_Witness ==
    /\ \A g \in HitRequests : hitReqs.pc[g] = "idle" /\ hitReqs.id[g] = "R1"
    /\ hitReqs.retries = 1
    /\ hitReqs.matches["R1"] = 2
    /\ ruleHits["R1"] = 2

(* -------------------------- concurrent reloads ------------------------ *)

\* The three references after the reloads of a history run one after the
\* other, in the order of the history, from the state Provision left.
RECURSIVE AfterReloads(_, _)
AfterReloads(history, n) ==
    IF n = 0
      THEN [ip |-> {"10.0.0.1"}, dns |-> {"bad.example"},
            rules |-> loadRules(RuleFileR1)]
      ELSE LET before == AfterReloads(history, n - 1)
               w == history[n].wrote
           IN  [ip |-> IF w.ip = << >> THEN before.ip ELSE w.ip[1],
                dns |-> IF w.dns = << >> THEN before.dns ELSE w.dns[1],
                rules |-> IF w.rules = << >> THEN before.rules ELSE w.rules[1]]

\* C38: at most one of ReloadRules / ReloadConfig is inside its critical
\* section at a time, and when none is, Rules, ipBlacklist and dnsBlacklist
\* are what the finished reloads give when run one after the other.
C38_ReloadsExclusive ==
    /\ Cardinality(mu.inside) <= 1
    /\ mu.inside = {} =>
         LET seq == AfterReloads(mu.history, Len(mu.history))
         IN  /\ ipBlacklist = seq.ip
             /\ dnsBlacklist = seq.dns
             /\ Rules = seq.rules

\* One watcher goroutine has finished a ReloadRules; the other is inside
\* ReloadConfig, has swapped the IP blacklist, and holds m.mu.
C38_Witness ==
    /\ Len(mu.history) = 1
    /\ mu.history[1].g = "w2"
    /\ mu.history[1].fn = "ReloadRules"
    /\ mu.holder = "w1"
    /\ mu.fn["w1"] = "ReloadConfig"
    /\ mu.pc["w1"] = "dns"
    /\ mu.pc["w2"] = "idle"
    /\ ipBlacklist = {"10.0.0.1", "10.0.0.2"}
    /\ Rules = loadRules(RuleFileR2)

=============================================================================
